---- MODULE Spec2Model ----
(***************************************************************************)
(* A model of the LDAP v3 message codec of the proto crate: the framed     *)
(* stream codec LdapCodec (src/proto/src/lib.rs) and the conversions       *)
(* between message values and BER tag trees (src/proto/src/proto.rs).      *)
(*                                                                         *)
(* Representation.  A byte is a number 0..255, a byte string (Vec<u8>) and *)
(* a String are sequences of bytes; a String is kept as its UTF-8 bytes    *)
(* and String::from_utf8 is the validity check IsUtf8.  Option<T> is a     *)
(* sequence of length 0 (None) or 1 (Some); a Result<T, ()> likewise (Err  *)
(* is the empty sequence).  A StructureTag is a record                     *)
(*   [class, id, pc, val] with pc = "P" (val: bytes) or "C" (val: tags).   *)
(***************************************************************************)
EXTENDS Integers, Sequences, FiniteSets, TLC

VARIABLES
    strict,   \* whether the crate is built with the "strict" feature
    buf,      \* the BytesMut handed to LdapCodec::encode and ::decode
    wire,     \* bytes a peer has written that the transport has not delivered yet
    sent,     \* the frames put on the stream so far: [m, tag, bytes]
    res,      \* the last decode call: its result, the buffer it was given, and the call before it
    out,      \* what the decode calls returned so far (Ok(None) left out)
    dbg,      \* the last value formatted with {:?}, and the text it gave: [v, text]
    conv      \* a value and the conversions applied to it, one after another: [kind, val]

vars == <<strict, buf, wire, sent, res, out, dbg, conv>>

-----------------------------------------------------------------------------
(* Option / Result *)

None == << >>

Some(x) == <<x>>

IsSome(o) == Len(o) = 1

IsNone(o) == Len(o) = 0

\* v.get(i) on the vector as it stood before value.reverse(): after the
\* reverse, the k-th pop() yields the k-th element from the front.
Nth(v, i) == IF i <= Len(v) THEN <<v[i]>> ELSE << >>

\* Vec::pop on the vector as it is: the last element.
Last(v) == IF Len(v) > 0 THEN <<v[Len(v)]>> ELSE << >>

-----------------------------------------------------------------------------
(* Tag classes and universal type numbers of the BER layer *)

ClassNum(c) == CASE c = "Universal" -> 0 [] c = "Application" -> 1 [] c = "Context" -> 2 [] c = "Private" -> 3

NumClass(n) == CASE n = 0 -> "Universal" [] n = 1 -> "Application" [] n = 2 -> "Context" [] n = 3 -> "Private"

TypesBoolean == 1

TypesInteger == 2

TypesOctetString == 4

TypesNull == 5

TypesEnumerated == 10

TypesSequence == 16

TypesSet == 17

-----------------------------------------------------------------------------
(* Typed tags (lber::structures::Tag) as the encoder builds them, already  *)
(* lowered to StructureTag by into_structure.                              *)

Prim(class, id, bytes) == [class |-> class, id |-> id, pc |-> "P", val |-> bytes]

Cons(class, id, tags) == [class |-> class, id |-> id, pc |-> "C", val |-> tags]

RECURSIVE ByteCount(_)
\* The do-while of the integer writer: count = 1; while (rem >>= 8) > 0 count++.
ByteCount(rem) == IF rem \div 256 > 0 THEN 1 + ByteCount(rem \div 256) ELSE 1

RECURSIVE BigEndian(_, _)
\* The low n bytes of the two's complement of v, most significant first
\* (\div rounds down and % is non-negative, as an arithmetic shift and a mask).
BigEndian(v, n) == IF n = 0 THEN << >> ELSE Append(BigEndian(v \div 256, n - 1), v % 256)

\* An i64 is kept as its 8 bytes, most significant first: the numbers of
\* the model checker are 32 bits wide.  I64FromInt(i) is `i as i64`.
I64FromInt(i) == BigEndian(i, 8)

\* The bytes of s after its leading zero bytes, but at least one byte.
RECURSIVE StripZeros(_)
StripZeros(s) == IF Len(s) > 1 /\ s[1] = 0 THEN StripZeros(Tail(s)) ELSE s

\* v + 1 on a big-endian byte string (wrapping).
RECURSIVE Increment(_)
Increment(s) ==
    IF Len(s) = 0 THEN << >>
    ELSE IF s[Len(s)] < 255 THEN [s EXCEPT ![Len(s)] = @ + 1]
    ELSE Append(Increment(SubSeq(s, 1, Len(s) - 1)), 0)

\* |v| of an i64: v itself, or its two's complement negation.
Magnitude(v) == IF v[1] < 128 THEN v ELSE Increment([i \in 1..8 |-> 255 - v[i]])

\* Integer / Enumerated content octets: as many bytes as the magnitude
\* needs, holding the two's complement value truncated to that width.
IntBytes(v) ==
    LET n == Len(StripZeros(Magnitude(v)))
    IN  SubSeq(v, 9 - n, 8)

TagOctetString(class, id, bytes) == Prim(class, id, bytes)

TagInteger(class, id, i) == Prim(class, id, IntBytes(I64FromInt(i)))

\* Integer { inner, ..Default::default() } of an i64 field
TagIntegerI64(v) == Prim("Universal", TypesInteger, IntBytes(v))

TagEnumerated(i) == Prim("Universal", TypesEnumerated, IntBytes(I64FromInt(i)))

TagBoolean(b) == Prim("Universal", TypesBoolean, IF b THEN <<255>> ELSE <<0>>)

TagNull(class, id) == Prim(class, id, << >>)

TagSequence(class, id, tags) == Cons(class, id, tags)

TagSet(class, id, tags) == Cons(class, id, tags)

TagExplicit(class, id, tag) == Cons(class, id, <<tag>>)

\* OctetString { inner, ..Default::default() }
UOctetString(bytes) == TagOctetString("Universal", TypesOctetString, bytes)

\* Sequence { inner, ..Default::default() }
USequence(tags) == TagSequence("Universal", TypesSequence, tags)

-----------------------------------------------------------------------------
(* The BER writer (lber::write::encode_into): identifier octet, definite   *)
(* length (short form below 128, long form above), content.                *)

WriteLength(n) == IF n < 128 THEN <<n>> ELSE <<128 + ByteCount(n)>> \o BigEndian(n, ByteCount(n))

WriteType(class, pc, id) == <<ClassNum(class) * 64 + (IF pc = "C" THEN 32 ELSE 0) + id>>

RECURSIVE WriteTag(_), WriteTags(_)
WriteTag(t) ==
    LET content == IF t.pc = "P" THEN t.val ELSE WriteTags(t.val)
    IN  WriteType(t.class, t.pc, t.id) \o WriteLength(Len(content)) \o content

WriteTags(ts) == IF Len(ts) = 0 THEN << >> ELSE WriteTag(Head(ts)) \o WriteTags(Tail(ts))

-----------------------------------------------------------------------------
(* The BER parser (lber::parse::Parser::handle on Input::Element): a       *)
(* streaming parse of one element from the head of the input.  The result  *)
(* is [st |-> "Done", size, tag], [st |-> "Continue"] when the input ends  *)
(* before the element does, or [st |-> "Error"].                           *)

PContinue == [st |-> "Continue"]

PError == [st |-> "Error"]

PDone(size, tag) == [st |-> "Done", size |-> size, tag |-> tag]

\* Big-endian value of a byte string.
RECURSIVE ParseUint(_)
ParseUint(b) == IF Len(b) = 0 THEN 0 ELSE ParseUint(SubSeq(b, 1, Len(b) - 1)) * 256 + b[Len(b)]

\* The length octets starting at b[p]: [st, len, next].
ParseLength(b, p) ==
    IF p > Len(b) THEN [st |-> "Continue"]
    ELSE IF b[p] < 128 THEN [st |-> "Done", len |-> b[p], next |-> p + 1]
    ELSE LET n == b[p] - 128
         IN  IF p + n > Len(b) THEN [st |-> "Continue"]
             ELSE [st |-> "Done", len |-> ParseUint(SubSeq(b, p + 1, p + n)), next |-> p + 1 + n]

RECURSIVE ParseTag(_), ParseContent(_)
ParseTag(b) ==
    IF Len(b) = 0 THEN PContinue
    ELSE LET class == NumClass(b[1] \div 64)
             pc == IF (b[1] \div 32) % 2 = 1 THEN "C" ELSE "P"
             id == b[1] % 32
             l == ParseLength(b, 2)
         IN  IF l.st # "Done" THEN l
             ELSE IF l.next - 1 + l.len > Len(b) THEN PContinue
             ELSE LET content == SubSeq(b, l.next, l.next - 1 + l.len)
                      size == l.next - 1 + l.len
                  IN  IF pc = "P" THEN PDone(size, Prim(class, id, content))
                      ELSE LET inner == ParseContent(content)
                           IN  IF inner.st # "Done" THEN inner
                               ELSE PDone(size, Cons(class, id, inner.tags))

\* The children of a constructed element: parse_tag until the content is used up.
ParseContent(c) ==
    IF Len(c) = 0 THEN [st |-> "Done", tags |-> << >>]
    ELSE LET first == ParseTag(c)
         IN  IF first.st # "Done" THEN first
             ELSE LET rest == ParseContent(SubSeq(c, first.size + 1, Len(c)))
                  IN  IF rest.st # "Done" THEN rest
                      ELSE [st |-> "Done", tags |-> <<first.tag>> \o rest.tags]

-----------------------------------------------------------------------------
(* StructureTag accessors, lifted to Option<StructureTag> as the decoder   *)
(* chains them with and_then.                                              *)

MatchClass(ot, class) == IF IsSome(ot) /\ ot[1].class = class THEN ot ELSE None

MatchId(ot, id) == IF IsSome(ot) /\ ot[1].id = id THEN ot ELSE None

ExpectPrimitive(ot) == IF IsSome(ot) /\ ot[1].pc = "P" THEN Some(ot[1].val) ELSE None

ExpectConstructed(ot) == IF IsSome(ot) /\ ot[1].pc = "C" THEN Some(ot[1].val) ELSE None

-----------------------------------------------------------------------------
(* Enumerations with their wire numbers (#[repr(i64)])                     *)

SyncRequestModeNum(m) == CASE m = "RefreshOnly" -> 1 [] m = "RefreshAndPersist" -> 3

SyncStateValueNum(s) == CASE s = "Present" -> 0 [] s = "Add" -> 1 [] s = "Modify" -> 2 [] s = "Delete" -> 3

LdapSearchScopeNum(s) == CASE s = "Base" -> 0 [] s = "OneLevel" -> 1 [] s = "Subtree" -> 2

LdapDerefAliasesNum(a) == CASE a = "Never" -> 0 [] a = "InSearching" -> 1 [] a = "FindingBaseObj" -> 2 [] a = "Always" -> 3

LdapModifyTypeNum(o) == CASE o = "Add" -> 0 [] o = "Delete" -> 1 [] o = "Replace" -> 2

\* enum LdapResultCode: <<discriminant, variant>>
LdapResultCodeTable ==
    << <<0, "Success">>, <<1, "OperationsError">>, <<2, "ProtocolError">>,
       <<3, "TimeLimitExceeded">>, <<4, "SizeLimitExceeded">>, <<5, "CompareFalse">>,
       <<6, "CompareTrue">>, <<7, "AuthMethodNotSupported">>, <<8, "StrongerAuthRequired">>,
       <<10, "Referral">>, <<11, "AdminLimitExceeded">>, <<12, "UnavailableCriticalExtension">>,
       <<13, "ConfidentialityRequired">>, <<14, "SaslBindInProgress">>, <<16, "NoSuchAttribute">>,
       <<17, "UndefinedAttributeType">>, <<18, "InappropriateMatching">>, <<19, "ConstraintViolation">>,
       <<20, "AttributeOrValueExists">>, <<21, "InvalidAttributeSyntax">>, <<32, "NoSuchObject">>,
       <<33, "AliasProblem">>, <<34, "InvalidDNSyntax">>, <<36, "AliasDereferencingProblem">>,
       <<48, "InappropriateAuthentication">>, <<49, "InvalidCredentials">>, <<50, "InsufficentAccessRights">>,
       <<51, "Busy">>, <<52, "Unavailable">>, <<53, "UnwillingToPerform">>,
       <<54, "LoopDetect">>, <<64, "NamingViolation">>, <<65, "ObjectClassViolation">>,
       <<66, "NotAllowedOnNonLeaf">>, <<67, "NotALlowedOnRDN">>, <<68, "EntryAlreadyExists">>,
       <<69, "ObjectClassModsProhibited">>, <<71, "AffectsMultipleDSAs">>, <<80, "Other">>,
       <<4096, "EsyncRefreshRequired">> >>

\* `code as i64`
LdapResultCodeNum(code) == LdapResultCodeTable[CHOOSE i \in DOMAIN LdapResultCodeTable : LdapResultCodeTable[i][2] = code][1]

-----------------------------------------------------------------------------
(* Well-known object identifiers, as their ASCII bytes                     *)

\* "1.3.6.1.4.1.4203.1.9.1." followed by the last arc
OidSyncPrefix == <<49, 46, 51, 46, 54, 46, 49, 46, 52, 46, 49, 46, 52, 50, 48, 51, 46, 49, 46, 57, 46, 49, 46>>

OidSyncRequest == OidSyncPrefix \o <<49>>

OidSyncState == OidSyncPrefix \o <<50>>

OidSyncDone == OidSyncPrefix \o <<51>>

OidSyncInfo == OidSyncPrefix \o <<52>>

\* "1.2.840.113556.1.4.841"
OidAdDirsync == <<49, 46, 50, 46, 56, 52, 48, 46, 49, 49, 51, 53, 53, 54, 46, 49, 46, 52, 46, 56, 52, 49>>

\* "1.3.6.1.4.1.4203.1.11." followed by the last arc
OidExtPrefix == <<49, 46, 51, 46, 54, 46, 49, 46, 52, 46, 49, 46, 52, 50, 48, 51, 46, 49, 46, 49, 49, 46>>

OidPasswordModify == OidExtPrefix \o <<49>>

OidWhoami == OidExtPrefix \o <<51>>

-----------------------------------------------------------------------------
(* Encoding: From<...> for Tag / Vec<Tag>                                  *)

\* iterator helper: Option<Tag> items flattened into a Vec<Tag>
RECURSIVE Flatten(_)
Flatten(opts) == IF Len(opts) = 0 THEN << >> ELSE Head(opts) \o Flatten(Tail(opts))

\* v.into_iter().map(f).collect()
MapSeq(F(_), s) == [i \in 1..Len(s) |-> F(s[i])]

BindCred_into_tag(cred) == TagOctetString("Context", 0, cred.pw)

LdapBindRequest_into_tags(v) == <<TagInteger("Universal", TypesInteger, 3), UOctetString(v.dn), BindCred_into_tag(v.cred)>>

LdapResult_into_tag_iter(r) ==
    << Some(TagEnumerated(LdapResultCodeNum(r.code))),
       Some(UOctetString(r.matcheddn)),
       Some(UOctetString(r.message)),
       IF Len(r.referral) # 0
       THEN Some(TagSequence("Context", 3, MapSeq(UOctetString, r.referral)))
       ELSE None >>

LdapResult_into_tags(r) == Flatten(LdapResult_into_tag_iter(r))

LdapBindResponse_into_tags(v) ==
    Flatten(LdapResult_into_tag_iter(v.res)
            \o << IF IsSome(v.saslcreds) THEN Some(UOctetString(v.saslcreds[1])) ELSE None >>)

SubstringInitial(s) == TagOctetString("Universal", 0, s)

SubstringAny(s) == TagOctetString("Universal", 1, s)

SubstringFinal(s) == TagOctetString("Universal", 2, s)

RECURSIVE LdapFilter_into_tag(_)
LdapFilter_into_tag(f) ==
    CASE f.t = "And" -> TagSet("Context", 0, MapSeq(LdapFilter_into_tag, f.fs))
      [] f.t = "Or" -> TagSet("Context", 1, MapSeq(LdapFilter_into_tag, f.fs))
      [] f.t = "Not" -> TagExplicit("Context", 2, LdapFilter_into_tag(f.f))
      [] f.t = "Equality" -> TagSequence("Context", 3, <<UOctetString(f.a), UOctetString(f.v)>>)
      [] f.t = "Substring" ->
            TagSequence("Context", 4,
                <<UOctetString(f.a),
                  USequence(MapSeq(SubstringInitial, f.sub.initial)
                            \o MapSeq(SubstringAny, f.sub.any)
                            \o MapSeq(SubstringFinal, f.sub.final_))>>)
      [] f.t = "Present" -> TagOctetString("Context", 7, f.a)

LdapSearchRequest_into_tags(v) ==
    << UOctetString(v.base),
       TagEnumerated(LdapSearchScopeNum(v.scope)),
       TagEnumerated(LdapDerefAliasesNum(v.aliases)),
       TagInteger("Universal", TypesInteger, v.sizelimit),
       TagInteger("Universal", TypesInteger, v.timelimit),
       TagBoolean(v.typesonly),
       LdapFilter_into_tag(v.filter),
       USequence(MapSeq(UOctetString, v.attrs)) >>

LdapPartialAttribute_into_tag(v) ==
    USequence(<<UOctetString(v.atype), TagSet("Universal", TypesSet, MapSeq(UOctetString, v.vals))>>)

LdapSearchResultEntry_into_tags(v) ==
    <<UOctetString(v.dn), USequence(MapSeq(LdapPartialAttribute_into_tag, v.attributes))>>

LdapModify_into_tag(v) ==
    USequence(<<TagEnumerated(LdapModifyTypeNum(v.operation)), LdapPartialAttribute_into_tag(v.modification)>>)

LdapModifyRequest_into_tags(v) ==
    <<UOctetString(v.dn), USequence(MapSeq(LdapModify_into_tag, v.changes))>>

LdapAddRequest_into_tags(v) ==
    <<UOctetString(v.dn), USequence(MapSeq(LdapPartialAttribute_into_tag, v.attributes))>>

LdapExtendedRequest_into_tags(v) ==
    <<TagOctetString("Context", 0, v.name)>>
    \o (IF IsSome(v.value) THEN <<TagOctetString("Context", 1, v.value[1])>> ELSE << >>)

LdapExtendedResponse_into_tags(v) ==
    Flatten(LdapResult_into_tag_iter(v.res)
            \o << IF IsSome(v.name) THEN Some(TagOctetString("Context", 10, v.name[1])) ELSE None,
                  IF IsSome(v.value) THEN Some(TagOctetString("Context", 11, v.value[1])) ELSE None >>)

\* The optional cookie of a sync body, as an OCTET STRING when present.
CookieTag(cookie) == IF IsSome(cookie) THEN Some(UOctetString(cookie[1])) ELSE None

\* The (name, value) pair an IntermediateResponse is written as; the sync
\* info variants carry their body BER-encoded in the value.
LdapIntermediateResponse_name_value(v) ==
    CASE v.t = "SyncInfoNewCookie" ->
            <<Some(OidSyncInfo), Some(WriteTag(TagSequence("Context", 0, <<UOctetString(v.cookie)>>)))>>
      [] v.t = "SyncInfoRefreshDelete" ->
            <<Some(OidSyncInfo),
              Some(WriteTag(TagSequence("Context", 1,
                  Flatten(<<CookieTag(v.cookie), IF ~v.done THEN Some(TagBoolean(FALSE)) ELSE None>>))))>>
      [] v.t = "SyncInfoRefreshPresent" ->
            <<Some(OidSyncInfo),
              Some(WriteTag(TagSequence("Context", 2,
                  Flatten(<<CookieTag(v.cookie), IF ~v.done THEN Some(TagBoolean(FALSE)) ELSE None>>))))>>
      [] v.t = "SyncInfoIdSet" ->
            <<Some(OidSyncInfo),
              Some(WriteTag(TagSequence("Context", 3,
                  Flatten(<<CookieTag(v.cookie),
                            IF v.refresh_deletes THEN Some(TagBoolean(TRUE)) ELSE None,
                            Some(TagSet("Universal", TypesSet, MapSeq(UOctetString, v.syncuuids)))>>))))>>
      [] v.t = "Raw" -> <<v.name, v.value>>

LdapIntermediateResponse_into_tags(v) ==
    LET nv == LdapIntermediateResponse_name_value(v)
    IN  Flatten(<< IF IsSome(nv[1]) THEN Some(TagOctetString("Context", 0, nv[1][1])) ELSE None,
                   IF IsSome(nv[2]) THEN Some(TagOctetString("Context", 1, nv[2][1])) ELSE None >>)

\* The (oid, crit, inner_tag) triple of a control.
LdapControl_parts(c) ==
    CASE c.t = "SyncRequest" ->
            [oid |-> OidSyncRequest, crit |-> c.criticality,
             inner |-> USequence(Flatten(<<Some(TagEnumerated(SyncRequestModeNum(c.mode))),
                                           CookieTag(c.cookie),
                                           IF c.reload_hint THEN Some(TagBoolean(TRUE)) ELSE None>>))]
      [] c.t = "SyncState" ->
            [oid |-> OidSyncState, crit |-> FALSE,
             inner |-> USequence(Flatten(<<Some(TagEnumerated(SyncStateValueNum(c.state))),
                                           Some(UOctetString(c.entry_uuid)),
                                           CookieTag(c.cookie)>>))]
      [] c.t = "SyncDone" ->
            [oid |-> OidSyncDone, crit |-> FALSE,
             inner |-> USequence(Flatten(<<CookieTag(c.cookie),
                                           IF c.refresh_deletes THEN Some(TagBoolean(TRUE)) ELSE None>>))]
      [] c.t = "AdDirsync" ->
            [oid |-> OidAdDirsync, crit |-> TRUE,
             inner |-> USequence(<<TagIntegerI64(c.flags),
                                   TagIntegerI64(c.max_bytes),
                                   UOctetString(IF IsSome(c.cookie) THEN c.cookie[1] ELSE << >>)>>)]

LdapControl_into_tag(c) ==
    LET p == LdapControl_parts(c)
    IN  USequence(<<UOctetString(p.oid)>>
                  \o (IF p.crit THEN <<TagBoolean(TRUE)>> ELSE << >>)
                  \o <<UOctetString(WriteTag(p.inner))>>)

LdapOp_into_tag(op) ==
    CASE op.t = "BindRequest" -> TagSequence("Application", 0, LdapBindRequest_into_tags(op))
      [] op.t = "BindResponse" -> TagSequence("Application", 1, LdapBindResponse_into_tags(op))
      [] op.t = "UnbindRequest" -> TagNull("Application", 2)
      [] op.t = "SearchRequest" -> TagSequence("Application", 3, LdapSearchRequest_into_tags(op))
      [] op.t = "SearchResultEntry" -> TagSequence("Application", 4, LdapSearchResultEntry_into_tags(op))
      [] op.t = "SearchResultDone" -> TagSequence("Application", 5, LdapResult_into_tags(op.res))
      [] op.t = "ModifyRequest" -> TagSequence("Application", 6, LdapModifyRequest_into_tags(op))
      [] op.t = "ModifyResponse" -> TagSequence("Application", 7, LdapResult_into_tags(op.res))
      [] op.t = "AddRequest" -> TagSequence("Application", 8, LdapAddRequest_into_tags(op))
      [] op.t = "AddResponse" -> TagSequence("Application", 9, LdapResult_into_tags(op.res))
      [] op.t = "DelRequest" -> TagOctetString("Application", 10, op.dn)
      [] op.t = "DelResponse" -> TagSequence("Application", 11, LdapResult_into_tags(op.res))
      [] op.t = "AbandonRequest" -> TagInteger("Application", 16, op.id)
      [] op.t = "ExtendedRequest" -> TagSequence("Application", 23, LdapExtendedRequest_into_tags(op))
      [] op.t = "ExtendedResponse" -> TagSequence("Application", 24, LdapExtendedResponse_into_tags(op))
      [] op.t = "IntermediateResponse" -> TagSequence("Application", 25, LdapIntermediateResponse_into_tags(op.ir))

\* A variant that writes the controls element for an empty list as well.
LdapMsg_into_tag_always_ctrl(m) ==
    USequence(<< TagInteger("Universal", TypesInteger, m.msgid),
                 LdapOp_into_tag(m.op),
                 TagSequence("Context", 0, MapSeq(LdapControl_into_tag, m.ctrl)) >>)

LdapMsg_into_tag(m) ==
    USequence(Flatten(<< Some(TagInteger("Universal", TypesInteger, m.msgid)),
                         Some(LdapOp_into_tag(m.op)),
                         IF Len(m.ctrl) = 0 THEN None
                         ELSE Some(TagSequence("Context", 0, MapSeq(LdapControl_into_tag, m.ctrl))),
                         None >>))

-----------------------------------------------------------------------------
(* Primitive payload conversions                                           *)

\* String::from_utf8 accepts exactly the well-formed UTF-8 byte strings:
\* the first byte starts a character, and every byte that starts one is
\* followed by exactly the continuation bytes its range asks for.
IsUtf8(b) ==
    LET Cont(i) == i <= Len(b) /\ b[i] >= 128 /\ b[i] <= 191
        Need(c) == CASE c < 128 -> 0
                     [] c >= 194 /\ c <= 223 -> 1
                     [] c >= 224 /\ c <= 239 -> 2
                     [] c >= 240 /\ c <= 244 -> 3
                     [] OTHER -> -1
        WellFormed(i) ==
            LET c == b[i]
                n == Need(c)
            IN  /\ n >= 0
                /\ \A j \in (i + 1)..(i + n) : Cont(j)
                /\ ~Cont(i + n + 1)
                /\ (c = 224 => b[i + 1] >= 160)
                /\ (c = 237 => b[i + 1] <= 159)
                /\ (c = 240 => b[i + 1] >= 144)
                /\ (c = 244 => b[i + 1] <= 143)
    IN  /\ ~Cont(1)
        /\ \A i \in 1..Len(b) : Cont(i) \/ WellFormed(i)

\* .and_then(|bv| String::from_utf8(bv).ok())
FromUtf8(obv) == IF IsSome(obv) /\ IsUtf8(obv[1]) THEN obv ELSE None

\* `v as i32`: the low 32 bits of the i64, read as a signed number.
AsI32(v) == (IF v[5] >= 128 THEN v[5] - 256 ELSE v[5]) * 16777216 + v[6] * 65536 + v[7] * 256 + v[8]

\* The same with the buffer filled with the sign of the first byte.
ber_integer_to_i64_sign_extended(bv) ==
    IF Len(bv) > 8 THEN None
    ELSE Some([i \in 1..(8 - Len(bv)) |-> IF Len(bv) > 0 /\ bv[1] >= 128 THEN 255 ELSE 0] \o bv)

\* The bytes right-aligned in a zeroed 8-byte buffer, read as a big-endian i64.
ber_integer_to_i64(bv) ==
    IF Len(bv) > 8 THEN None
    ELSE Some([i \in 1..(8 - Len(bv)) |-> 0] \o bv)

ber_bool_to_bool(bv) == IF Len(bv) = 0 THEN None ELSE Some(bv[1] # 0)

\* .and_then(ber_integer_to_i64)
AndThenInt(obv) == IF IsSome(obv) THEN ber_integer_to_i64(obv[1]) ELSE None

\* .and_then(ber_bool_to_bool)
AndThenBool(obv) == IF IsSome(obv) THEN ber_bool_to_bool(obv[1]) ELSE None

\* .unwrap_or(d)
UnwrapOr(o, d) == IF IsSome(o) THEN o[1] ELSE d

\* match_class(Universal).match_id(id).expect_primitive()
UPrim(ot, id) == ExpectPrimitive(MatchId(MatchClass(ot, "Universal"), id))

\* match_class(Universal).match_id(id).expect_constructed()
UCons(ot, id) == ExpectConstructed(MatchId(MatchClass(ot, "Universal"), id))

\* Uuid::from_slice succeeds on exactly 16 bytes.
UuidLen == 16

UuidFromSlice(obv) == IF IsSome(obv) /\ Len(obv[1]) = UuidLen THEN obv ELSE None

\* Reverse of a sequence.
Reverse(s) == [i \in 1..Len(s) |-> s[Len(s) + 1 - i]]

\* The elements of s that satisfy the predicate given as a set of indices.
RECURSIVE Keep(_, _)
Keep(s, idx) ==
    IF Len(s) = 0 THEN << >>
    ELSE Keep(SubSeq(s, 1, Len(s) - 1), idx) \o (IF Len(s) \in idx THEN <<s[Len(s)]>> ELSE << >>)

\* collect::<Option<Vec<_>>>() / collect::<Result<Vec<_>, _>>() over
\* already-converted items: None as soon as one item is None.
CollectAll(opts) ==
    IF \E i \in 1..Len(opts) : IsNone(opts[i]) THEN None
    ELSE Some([i \in 1..Len(opts) |-> opts[i][1]])

-----------------------------------------------------------------------------
(* Decoding: TryFrom<StructureTag> / TryFrom<Vec<StructureTag>>            *)

TryFrom_i64_LdapModifyType(v) ==
    CASE v = I64FromInt(0) -> Some("Add") [] v = I64FromInt(1) -> Some("Delete")
      [] v = I64FromInt(2) -> Some("Replace") [] OTHER -> None

TryFrom_i64_LdapSearchScope(v) ==
    CASE v = I64FromInt(0) -> Some("Base") [] v = I64FromInt(1) -> Some("OneLevel")
      [] v = I64FromInt(2) -> Some("Subtree") [] OTHER -> None

TryFrom_i64_LdapDerefAliases(v) ==
    CASE v = I64FromInt(0) -> Some("Never") [] v = I64FromInt(1) -> Some("InSearching")
      [] v = I64FromInt(2) -> Some("FindingBaseObj") [] v = I64FromInt(3) -> Some("Always") [] OTHER -> None

\* A variant that takes every unlisted number for Other.
TryFrom_i64_LdapResultCode_lenient(v) ==
    IF \E i \in DOMAIN LdapResultCodeTable : I64FromInt(LdapResultCodeTable[i][1]) = v
    THEN Some(LdapResultCodeTable[CHOOSE i \in DOMAIN LdapResultCodeTable :
                                      I64FromInt(LdapResultCodeTable[i][1]) = v][2])
    ELSE Some("Other")

TryFrom_i64_LdapResultCode(v) ==
    IF \E i \in DOMAIN LdapResultCodeTable : I64FromInt(LdapResultCodeTable[i][1]) = v
    THEN Some(LdapResultCodeTable[CHOOSE i \in DOMAIN LdapResultCodeTable :
                                      I64FromInt(LdapResultCodeTable[i][1]) = v][2])
    ELSE None

\* The nested BER body of a control or extended value: the parser must
\* report Done, and the element must be constructed.
ParseBody(value_ber) ==
    LET p == ParseTag(value_ber)
    IN  IF p.st = "Done" THEN ExpectConstructed(Some(p.tag)) ELSE None

SyncRequest_try_from(criticality_tag, value_tag) ==
    LET criticality == UnwrapOr(AndThenBool(UPrim(criticality_tag, TypesBoolean)), FALSE)
        value_ber == UPrim(value_tag, TypesOctetString)
        body == IF IsSome(value_ber) THEN ParseBody(value_ber[1]) ELSE None
    IN  IF IsNone(body) THEN None
        ELSE LET value == body[1]
                 modenum == AndThenInt(UPrim(Nth(value, 1), TypesEnumerated))
                 mode == IF IsNone(modenum) THEN None
                         ELSE CASE modenum[1] = I64FromInt(1) -> Some("RefreshOnly")
                                [] modenum[1] = I64FromInt(3) -> Some("RefreshAndPersist")
                                [] OTHER -> None
                 cookie == UPrim(Nth(value, 2), TypesOctetString)
                 reload_hint == UnwrapOr(AndThenBool(UPrim(Nth(value, 3), TypesBoolean)), FALSE)
             IN  IF IsNone(mode) THEN None
                 ELSE Some([t |-> "SyncRequest", criticality |-> criticality, mode |-> mode[1],
                            cookie |-> cookie, reload_hint |-> reload_hint])

\* The same without Uuid::from_slice: an entry_uuid of any length.
SyncState_try_from_any_uuid(value_tag) ==
    LET value_ber == UPrim(value_tag, TypesOctetString)
        body == IF IsSome(value_ber) THEN ParseBody(value_ber[1]) ELSE None
    IN  IF IsNone(body) THEN None
        ELSE LET value == body[1]
                 statenum == AndThenInt(UPrim(Nth(value, 1), TypesEnumerated))
                 state == IF IsNone(statenum) THEN None
                          ELSE CASE statenum[1] = I64FromInt(0) -> Some("Present")
                                 [] statenum[1] = I64FromInt(1) -> Some("Add")
                                 [] statenum[1] = I64FromInt(2) -> Some("Modify")
                                 [] statenum[1] = I64FromInt(3) -> Some("Delete")
                                 [] OTHER -> None
                 entry_uuid == UPrim(Nth(value, 2), TypesOctetString)
                 cookie == UPrim(Nth(value, 3), TypesOctetString)
             IN  IF IsNone(state) \/ IsNone(entry_uuid) THEN None
                 ELSE Some([t |-> "SyncState", state |-> state[1], entry_uuid |-> entry_uuid[1],
                            cookie |-> cookie])

SyncState_try_from(value_tag) ==
    LET value_ber == UPrim(value_tag, TypesOctetString)
        body == IF IsSome(value_ber) THEN ParseBody(value_ber[1]) ELSE None
    IN  IF IsNone(body) THEN None
        ELSE LET value == body[1]
                 statenum == AndThenInt(UPrim(Nth(value, 1), TypesEnumerated))
                 state == IF IsNone(statenum) THEN None
                          ELSE CASE statenum[1] = I64FromInt(0) -> Some("Present")
                                 [] statenum[1] = I64FromInt(1) -> Some("Add")
                                 [] statenum[1] = I64FromInt(2) -> Some("Modify")
                                 [] statenum[1] = I64FromInt(3) -> Some("Delete")
                                 [] OTHER -> None
                 entry_uuid == UuidFromSlice(UPrim(Nth(value, 2), TypesOctetString))
                 cookie == UPrim(Nth(value, 3), TypesOctetString)
             IN  IF IsNone(state) \/ IsNone(entry_uuid) THEN None
                 ELSE Some([t |-> "SyncState", state |-> state[1], entry_uuid |-> entry_uuid[1],
                            cookie |-> cookie])

SyncDone_try_from(value_tag) ==
    LET value_ber == UPrim(value_tag, TypesOctetString)
        body == IF IsSome(value_ber) THEN ParseBody(value_ber[1]) ELSE None
    IN  IF IsNone(body) THEN None
        ELSE LET value == body[1]
                 cookie == UPrim(Nth(value, 1), TypesOctetString)
                 refresh_deletes == UnwrapOr(AndThenBool(UPrim(Nth(value, 2), TypesBoolean)), FALSE)
             IN  Some([t |-> "SyncDone", cookie |-> cookie, refresh_deletes |-> refresh_deletes])

AdDirsync_try_from(value_tag) ==
    LET value_ber == UPrim(value_tag, TypesOctetString)
        body == IF IsSome(value_ber) THEN ParseBody(value_ber[1]) ELSE None
    IN  IF IsNone(body) THEN None
        ELSE LET value == body[1]
                 flags == AndThenInt(UPrim(Nth(value, 1), TypesInteger))
                 max_bytes == AndThenInt(UPrim(Nth(value, 2), TypesInteger))
                 cookie == UPrim(Nth(value, 3), TypesOctetString)
             IN  IF IsNone(flags) \/ IsNone(max_bytes) THEN None
                 ELSE Some([t |-> "AdDirsync", flags |-> flags[1], max_bytes |-> max_bytes[1],
                            cookie |-> cookie])

LdapControl_try_from(tag) ==
    LET oseq == ExpectConstructed(MatchId(Some(tag), TypesSequence))
    IN  IF IsNone(oseq) \/ Len(oseq[1]) \notin {1, 2, 3} THEN None
        ELSE LET seq == oseq[1]
                 oid_tag == Some(seq[1])
                 criticality_tag == IF Len(seq) = 3 THEN Some(seq[2]) ELSE None
                 value_tag == IF Len(seq) = 1 THEN None ELSE Some(seq[Len(seq)])
                 oid == FromUtf8(UPrim(oid_tag, TypesOctetString))
             IN  IF IsNone(oid) THEN None
                 ELSE CASE oid[1] = OidSyncRequest -> SyncRequest_try_from(criticality_tag, value_tag)
                        [] oid[1] = OidSyncState -> SyncState_try_from(value_tag)
                        [] oid[1] = OidSyncDone -> SyncDone_try_from(value_tag)
                        [] oid[1] = OidAdDirsync -> AdDirsync_try_from(value_tag)
                        [] OTHER -> None

LdapBindCred_try_from(tag) ==
    IF tag.class # "Context" THEN None
    ELSE IF tag.id = 0
         THEN LET pw == FromUtf8(ExpectPrimitive(Some(tag)))
              IN  IF IsSome(pw) THEN Some([t |-> "Simple", pw |-> pw[1]]) ELSE None
         ELSE None

\* A variant that does not look at the version number.
LdapBindRequest_try_from_any_version(value) ==
    LET v == AndThenInt(UPrim(Nth(value, 1), TypesInteger))
        dn == FromUtf8(UPrim(Nth(value, 2), TypesOctetString))
        cred == IF Len(value) >= 3 THEN LdapBindCred_try_from(value[3]) ELSE None
    IN  IF IsNone(v) \/ IsNone(dn) \/ IsNone(cred) THEN None
        ELSE Some([t |-> "BindRequest", dn |-> dn[1], cred |-> cred[1]])

LdapBindRequest_try_from(value) ==
    LET v == AndThenInt(UPrim(Nth(value, 1), TypesInteger))
        dn == FromUtf8(UPrim(Nth(value, 2), TypesOctetString))
        cred == IF Len(value) >= 3 THEN LdapBindCred_try_from(value[3]) ELSE None
    IN  IF IsNone(v) \/ v # Some(I64FromInt(3)) \/ IsNone(dn) \/ IsNone(cred) THEN None
        ELSE Some([t |-> "BindRequest", dn |-> dn[1], cred |-> cred[1]])

\* A variant that reads the referral element back.
LdapResult_try_from_tag_reads_referral(value) ==
    LET codenum == AndThenInt(UPrim(Nth(value, 1), TypesEnumerated))
        code == IF IsSome(codenum) THEN TryFrom_i64_LdapResultCode(codenum[1]) ELSE None
        matcheddn == FromUtf8(UPrim(Nth(value, 2), TypesOctetString))
        message == FromUtf8(UPrim(Nth(value, 3), TypesOctetString))
        left == Reverse(SubSeq(value, 4, Len(value)))
        refs == Keep(left, {i \in 1..Len(left) : left[i].id = 3})
        other == Keep(left, {i \in 1..Len(left) : left[i].id # 3})
    IN  IF IsNone(code) \/ IsNone(matcheddn) \/ IsNone(message) THEN None
        ELSE Some([res |-> [code |-> code[1], matcheddn |-> matcheddn[1], message |-> message[1],
                            referral |-> IF Len(refs) = 0 THEN << >>
                                         ELSE [j \in 1..Len(refs[1].val) |-> refs[1].val[j].val]],
                   other |-> other])

\* LdapResult::try_from_tag: (result, other) with `other` the elements left
\* after the three pops (in reversed order) whose id is not 3.
LdapResult_try_from_tag(value) ==
    LET codenum == AndThenInt(UPrim(Nth(value, 1), TypesEnumerated))
        code == IF IsSome(codenum) THEN TryFrom_i64_LdapResultCode(codenum[1]) ELSE None
        matcheddn == FromUtf8(UPrim(Nth(value, 2), TypesOctetString))
        message == FromUtf8(UPrim(Nth(value, 3), TypesOctetString))
        left == Reverse(SubSeq(value, 4, Len(value)))
        other == Keep(left, {i \in 1..Len(left) : left[i].id # 3})
    IN  IF IsNone(code) \/ IsNone(matcheddn) \/ IsNone(message) THEN None
        ELSE Some([res |-> [code |-> code[1], matcheddn |-> matcheddn[1], message |-> message[1],
                            referral |-> << >>],
                   other |-> other])

\* LdapResult::try_from_tag(inner).map(|(lr, _)| LdapOp::X(lr))
LdapResultOp_try_from(name, value) ==
    LET r == LdapResult_try_from_tag(value)
    IN  IF IsNone(r) THEN None ELSE Some([t |-> name, res |-> r[1].res])

LdapBindResponse_try_from(value) ==
    LET r == LdapResult_try_from_tag(value)
    IN  IF IsNone(r) THEN None ELSE Some([t |-> "BindResponse", res |-> r[1].res, saslcreds |-> None])

\* The same without the test that a final part is the last one.
SubstringParts_try_from_final_anywhere(bv) ==
    LET n == Len(bv)
        Bad(i) == \/ bv[i].pc # "P"
                  \/ bv[i].id \notin {0, 1, 2}
                  \/ (bv[i].id = 0 /\ i # 1)
                  \/ ~IsUtf8(bv[i].val)
        anyIdx == {i \in 1..n : bv[i].id = 1}
        finIdx == {i \in 1..n : bv[i].id = 2}
    IN  IF \E i \in 1..n : Bad(i) THEN None
        ELSE Some([initial |-> IF n >= 1 /\ bv[1].id = 0 THEN Some(bv[1].val) ELSE None,
                   any |-> [i \in 1..Cardinality(anyIdx) |-> Keep(bv, anyIdx)[i].val],
                   final_ |-> IF finIdx = {} THEN None
                              ELSE Some(bv[CHOOSE i \in finIdx : \A j \in finIdx : j <= i].val)])

\* The parts of a Substring filter: initial only at the first position,
\* final only at the last, any in between; every part primitive and UTF-8.
SubstringParts_try_from(bv) ==
    LET n == Len(bv)
        Bad(i) == \/ bv[i].pc # "P"
                  \/ bv[i].id \notin {0, 1, 2}
                  \/ (bv[i].id = 0 /\ i # 1)
                  \/ (bv[i].id = 2 /\ i # n)
                  \/ ~IsUtf8(bv[i].val)
        anyIdx == {i \in 1..n : bv[i].id = 1}
    IN  IF \E i \in 1..n : Bad(i) THEN None
        ELSE Some([initial |-> IF n >= 1 /\ bv[1].id = 0 THEN Some(bv[1].val) ELSE None,
                   any |-> [i \in 1..Cardinality(anyIdx) |-> Keep(bv, anyIdx)[i].val],
                   final_ |-> IF n >= 1 /\ bv[n].id = 2 THEN Some(bv[n].val) ELSE None])

RECURSIVE LdapFilter_try_from(_, _)
LdapFilter_try_from(value, st) ==
    IF value.class # "Context" THEN None
    ELSE CASE value.id \in {0, 1} ->
                LET inner == ExpectConstructed(Some(value))
                    vf == IF IsSome(inner)
                          THEN CollectAll([i \in 1..Len(inner[1]) |-> LdapFilter_try_from(inner[1][i], st)])
                          ELSE None
                IN  IF IsNone(vf) THEN None
                    ELSE Some([t |-> IF value.id = 0 THEN "And" ELSE "Or", fs |-> vf[1]])
           [] value.id = 2 ->
                LET inner == ExpectConstructed(Some(value))
                    last == IF IsSome(inner) THEN Last(inner[1]) ELSE None
                    inner_filt == IF IsSome(last) THEN LdapFilter_try_from(last[1], st) ELSE None
                IN  IF IsNone(inner_filt) THEN None ELSE Some([t |-> "Not", f |-> inner_filt[1]])
           [] value.id = 3 ->
                LET inner == ExpectConstructed(Some(value))
                    a == IF IsSome(inner) THEN FromUtf8(UPrim(Nth(inner[1], 1), TypesOctetString)) ELSE None
                    vt == IF IsSome(inner) THEN MatchClass(Nth(inner[1], 2), "Universal") ELSE None
                    v == FromUtf8(ExpectPrimitive(IF st THEN MatchId(vt, TypesOctetString) ELSE vt))
                IN  IF IsNone(a) \/ IsNone(v) THEN None
                    ELSE Some([t |-> "Equality", a |-> a[1], v |-> v[1]])
           [] value.id = 4 ->
                LET inner == ExpectConstructed(Some(value))
                    ty == IF IsSome(inner) THEN FromUtf8(UPrim(Nth(inner[1], 1), TypesOctetString)) ELSE None
                    bv == IF IsSome(inner) THEN UCons(Nth(inner[1], 2), TypesSequence) ELSE None
                    f == IF IsSome(bv) THEN SubstringParts_try_from(bv[1]) ELSE None
                IN  IF IsNone(ty) \/ IsNone(f) THEN None
                    ELSE Some([t |-> "Substring", a |-> ty[1], sub |-> f[1]])
           [] value.id = 7 ->
                LET a == FromUtf8(ExpectPrimitive(Some(value)))
                IN  IF IsNone(a) THEN None ELSE Some([t |-> "Present", a |-> a[1]])
           [] OTHER -> None

\* The attrs element of a SearchRequest.  Built without the "strict"
\* feature, the element only has to be there and of universal class, and
\* the list is taken from an empty vector (Some(Vec::new())).
SearchAttrs_try_from(ot, st) ==
    LET u == MatchClass(ot, "Universal")
        vs == IF st THEN ExpectConstructed(MatchId(u, TypesSequence))
              ELSE IF IsSome(u) THEN Some(<< >>) ELSE None
    IN  IF IsNone(vs) THEN None
        ELSE CollectAll([i \in 1..Len(vs[1]) |-> FromUtf8(UPrim(Some(vs[1][i]), TypesOctetString))])

LdapSearchRequest_try_from(value, st) ==
    LET base == FromUtf8(UPrim(Nth(value, 1), TypesOctetString))
        scopet == MatchClass(Nth(value, 2), "Universal")
        scopenum == AndThenInt(ExpectPrimitive(IF st THEN MatchId(scopet, TypesEnumerated) ELSE scopet))
        scope == IF IsSome(scopenum) THEN TryFrom_i64_LdapSearchScope(scopenum[1]) ELSE None
        aliasnum == AndThenInt(UPrim(Nth(value, 3), TypesEnumerated))
        aliases == IF IsSome(aliasnum) THEN TryFrom_i64_LdapDerefAliases(aliasnum[1]) ELSE None
        sizelimit == AndThenInt(UPrim(Nth(value, 4), TypesInteger))
        timelimit == AndThenInt(UPrim(Nth(value, 5), TypesInteger))
        typesonly == AndThenBool(UPrim(Nth(value, 6), TypesBoolean))
        filter == IF Len(value) >= 7 THEN LdapFilter_try_from(value[7], st) ELSE None
        attrs == SearchAttrs_try_from(Nth(value, 8), st)
    IN  IF \/ IsNone(base) \/ IsNone(scope) \/ IsNone(aliases) \/ IsNone(sizelimit)
           \/ IsNone(timelimit) \/ IsNone(typesonly) \/ IsNone(filter) \/ IsNone(attrs)
        THEN None
        ELSE Some([t |-> "SearchRequest", base |-> base[1], scope |-> scope[1], aliases |-> aliases[1],
                   sizelimit |-> AsI32(sizelimit[1]), timelimit |-> AsI32(timelimit[1]),
                   typesonly |-> typesonly[1], filter |-> filter[1], attrs |-> attrs[1]])

LdapPartialAttribute_try_from(value) ==
    LET inner == UCons(Some(value), TypesSequence)
        atype == IF IsSome(inner) THEN FromUtf8(UPrim(Nth(inner[1], 1), TypesOctetString)) ELSE None
        bset == IF IsSome(inner) THEN UCons(Nth(inner[1], 2), TypesSet) ELSE None
        vals == IF IsSome(bset)
                THEN CollectAll([i \in 1..Len(bset[1]) |-> UPrim(Some(bset[1][i]), TypesOctetString)])
                ELSE None
    IN  IF IsNone(atype) \/ IsNone(vals) THEN None
        ELSE Some([atype |-> atype[1], vals |-> vals[1]])

\* SEQUENCE OF PartialAttribute, all of which must convert.
Attributes_try_from(ot) ==
    LET bset == UCons(ot, TypesSequence)
    IN  IF IsNone(bset) THEN None
        ELSE CollectAll([i \in 1..Len(bset[1]) |-> LdapPartialAttribute_try_from(bset[1][i])])

LdapSearchResultEntry_try_from(value) ==
    LET dn == FromUtf8(UPrim(Nth(value, 1), TypesOctetString))
        attributes == Attributes_try_from(Nth(value, 2))
    IN  IF IsNone(dn) \/ IsNone(attributes) THEN None
        ELSE Some([t |-> "SearchResultEntry", dn |-> dn[1], attributes |-> attributes[1]])

LdapAddRequest_try_from(value) ==
    LET dn == FromUtf8(UPrim(Nth(value, 1), TypesOctetString))
        attributes == Attributes_try_from(Nth(value, 2))
    IN  IF IsNone(dn) \/ IsNone(attributes) THEN None
        ELSE Some([t |-> "AddRequest", dn |-> dn[1], attributes |-> attributes[1]])

LdapModify_try_from(value) ==
    LET inner == UCons(Some(value), TypesSequence)
        opnum == IF IsSome(inner) THEN AndThenInt(UPrim(Nth(inner[1], 1), TypesEnumerated)) ELSE None
        operation == IF IsSome(opnum) THEN TryFrom_i64_LdapModifyType(opnum[1]) ELSE None
        modification == IF IsSome(inner) /\ Len(inner[1]) >= 2
                        THEN LdapPartialAttribute_try_from(inner[1][2]) ELSE None
    IN  IF IsNone(operation) \/ IsNone(modification) THEN None
        ELSE Some([operation |-> operation[1], modification |-> modification[1]])

LdapModifyRequest_try_from(value) ==
    LET dn == FromUtf8(UPrim(Nth(value, 1), TypesOctetString))
        bset == UCons(Nth(value, 2), TypesSequence)
        changes == IF IsSome(bset)
                   THEN CollectAll([i \in 1..Len(bset[1]) |-> LdapModify_try_from(bset[1][i])])
                   ELSE None
    IN  IF IsNone(dn) \/ IsNone(changes) THEN None
        ELSE Some([t |-> "ModifyRequest", dn |-> dn[1], changes |-> changes[1]])

LdapExtendedRequest_try_from(value) ==
    LET name == FromUtf8(ExpectPrimitive(MatchId(MatchClass(Nth(value, 1), "Context"), 0)))
        val == ExpectPrimitive(MatchId(MatchClass(Nth(value, 2), "Context"), 1))
    IN  IF IsNone(name) THEN None
        ELSE Some([t |-> "ExtendedRequest", name |-> name[1], value |-> val])

\* for_each over tags, assigning on every (id, class) match: the last
\* matching element decides; None when there is none.
LastMatch(tags, id, class) ==
    LET idx == {i \in 1..Len(tags) : tags[i].id = id /\ tags[i].class = class}
    IN  IF idx = {} THEN None
        ELSE Some(tags[CHOOSE i \in idx : \A j \in idx : j <= i])

LdapExtendedResponse_try_from(value) ==
    LET r == LdapResult_try_from_tag(value)
    IN  IF IsNone(r) THEN None
        ELSE Some([t |-> "ExtendedResponse", res |-> r[1].res,
                   name |-> FromUtf8(ExpectPrimitive(LastMatch(r[1].other, 10, "Context"))),
                   value |-> ExpectPrimitive(LastMatch(r[1].other, 11, "Context"))])

\* Vec::pop applied k times: the k-th element from the end.
NthLast(v, k) == IF k <= Len(v) THEN <<v[Len(v) + 1 - k]>> ELSE << >>

\* The body of a sync info message (id 1): every universal BOOLEAN sets
\* done (and must convert), every universal OCTET STRING sets the cookie.
SyncInfoRefreshDelete_try_from(inner) ==
    LET bools == {i \in 1..Len(inner) : inner[i].class = "Universal" /\ inner[i].id = TypesBoolean}
        octs == {i \in 1..Len(inner) : inner[i].class = "Universal" /\ inner[i].id = TypesOctetString}
        BoolAt(i) == AndThenBool(ExpectPrimitive(Some(inner[i])))
    IN  IF \E i \in bools : IsNone(BoolAt(i)) THEN None
        ELSE Some([t |-> "SyncInfoRefreshDelete",
                   cookie |-> IF octs = {} THEN None
                              ELSE ExpectPrimitive(Some(inner[CHOOSE i \in octs : \A j \in octs : j <= i])),
                   done |-> IF bools = {} THEN TRUE
                            ELSE BoolAt(CHOOSE i \in bools : \A j \in bools : j <= i)[1]])

SyncInfo_try_from(buf0) ==
    LET p == ParseTag(buf0)
    IN  IF p.st # "Done" THEN None
        ELSE IF p.tag.class # "Context" THEN None
        ELSE IF p.tag.pc # "C" THEN None
        ELSE LET inner == p.tag.val
                 id == p.tag.id
             IN  CASE id = 0 ->
                        LET cookie == ExpectPrimitive(NthLast(inner, 1))
                        IN  IF IsNone(cookie) THEN None
                            ELSE Some([t |-> "SyncInfoNewCookie", cookie |-> cookie[1]])
                   [] id = 1 -> SyncInfoRefreshDelete_try_from(inner)
                   [] id = 2 ->
                        Some([t |-> "SyncInfoRefreshPresent",
                              cookie |-> ExpectPrimitive(NthLast(inner, 2)),
                              done |-> UnwrapOr(AndThenBool(UPrim(NthLast(inner, 1), TypesBoolean)), TRUE)])
                   [] id = 3 ->
                        LET bset == UCons(NthLast(inner, 1), TypesSet)
                            syncuuids == IF IsSome(bset)
                                         THEN CollectAll([i \in 1..Len(bset[1]) |->
                                                  UuidFromSlice(UPrim(Some(bset[1][i]), TypesOctetString))])
                                         ELSE None
                        IN  IF IsNone(syncuuids) THEN None
                            ELSE Some([t |-> "SyncInfoIdSet",
                                       cookie |-> ExpectPrimitive(NthLast(inner, 3)),
                                       refresh_deletes |->
                                           UnwrapOr(AndThenBool(UPrim(NthLast(inner, 2), TypesBoolean)), FALSE),
                                       syncuuids |-> syncuuids[1]])
                   [] OTHER -> None

LdapIntermediateResponse_try_from(tags) ==
    LET name == FromUtf8(ExpectPrimitive(LastMatch(tags, 0, "Context")))
        value == ExpectPrimitive(LastMatch(tags, 1, "Context"))
    IN  IF name = Some(OidSyncInfo) /\ IsSome(value)
        THEN SyncInfo_try_from(value[1])
        ELSE Some([t |-> "Raw", name |-> name, value |-> value])

\* ber_integer_to_i64(inner).ok_or(()).map(|s| LdapOp::AbandonRequest(s as i32))
AbandonRequest_try_from(os) == IF IsNone(os) THEN None ELSE Some([t |-> "AbandonRequest", id |-> AsI32(os[1])])

\* Wrap a decoded intermediate response as the LdapOp variant.
IntermediateOp(oir) == IF IsNone(oir) THEN None ELSE Some([t |-> "IntermediateResponse", ir |-> oir[1]])

\* The match on (id, payload) of TryFrom<StructureTag> for LdapOp; C says
\* the payload is PL::C(inner), otherwise it is PL::P(inner).
LdapOp_match(id, C, inner, st) ==
    CASE id = 0 /\ C -> LdapBindRequest_try_from(inner)
      [] id = 1 /\ C -> LdapBindResponse_try_from(inner)
      [] id = 2 -> Some([t |-> "UnbindRequest"])
      [] id = 3 /\ C -> LdapSearchRequest_try_from(inner, st)
      [] id = 4 /\ C -> LdapSearchResultEntry_try_from(inner)
      [] id = 5 /\ C -> LdapResultOp_try_from("SearchResultDone", inner)
      [] id = 6 /\ C -> LdapModifyRequest_try_from(inner)
      [] id = 7 /\ C -> LdapResultOp_try_from("ModifyResponse", inner)
      [] id = 8 /\ C -> LdapAddRequest_try_from(inner)
      [] id = 9 /\ C -> LdapResultOp_try_from("AddResponse", inner)
      [] id = 10 /\ ~C ->
            IF IsUtf8(inner) THEN Some([t |-> "DelRequest", dn |-> inner]) ELSE None
      [] id = 11 /\ C -> LdapResultOp_try_from("DelResponse", inner)
      [] id = 16 /\ ~C -> AbandonRequest_try_from(ber_integer_to_i64(inner))
      [] id = 23 /\ C -> LdapExtendedRequest_try_from(inner)
      [] id = 24 /\ C -> LdapExtendedResponse_try_from(inner)
      [] id = 25 /\ C -> IntermediateOp(LdapIntermediateResponse_try_from(inner))
      [] OTHER -> None

\* LdapOp::try_from without the check of the tag class.
LdapOp_try_from_any_class(value, st) == LdapOp_match(value.id, value.pc = "C", value.val, st)

LdapOp_try_from(value, st) ==
    IF value.class # "Application" THEN None
    ELSE LdapOp_match(value.id, value.pc = "C", value.val, st)

\* The controls converted all or nothing: one that fails empties the list.
Controls_try_from_all(ctrl_tag) ==
    LET inner == ExpectConstructed(MatchId(MatchClass(ctrl_tag, "Context"), 0))
    IN  IF IsNone(inner) THEN << >>
        ELSE UnwrapOr(CollectAll([i \in 1..Len(inner[1]) |-> LdapControl_try_from(inner[1][i])]), << >>)

\* The controls read from a third child of any class, id and form.
Controls_try_from_any_tag(ctrl_tag) ==
    IF IsNone(ctrl_tag) \/ ctrl_tag[1].pc # "C" THEN << >>
    ELSE Flatten([i \in 1..Len(ctrl_tag[1].val) |-> LdapControl_try_from(ctrl_tag[1].val[i])])

\* The controls of a message: the elements that convert, in order.
Controls_try_from(ctrl_tag) ==
    LET inner == ExpectConstructed(MatchId(MatchClass(ctrl_tag, "Context"), 0))
    IN  IF IsNone(inner) THEN << >>
        ELSE LET cs == [i \in 1..Len(inner[1]) |-> LdapControl_try_from(inner[1][i])]
             IN  Flatten(cs)

\* Ok(LdapMsg { msgid, op, ctrl }) once the message id and the operation converted.
LdapMsg_from_parts(msgid, op, ctrl_tag) ==
    IF IsNone(msgid) \/ IsNone(op) THEN None
    ELSE Some([msgid |-> AsI32(msgid[1]), op |-> op[1], ctrl |-> Controls_try_from(ctrl_tag)])

\* The two or three children of the outer sequence.
LdapMsg_from_seq(seq, st) ==
    LdapMsg_from_parts(AndThenInt(UPrim(Some(seq[1]), TypesInteger)),
                       LdapOp_try_from(seq[2], st),
                       IF Len(seq) = 3 THEN Some(seq[3]) ELSE None)

LdapMsg_try_from(value, st) ==
    LET oseq == ExpectConstructed(MatchId(Some(value), TypesSequence))
    IN  IF IsNone(oseq) \/ Len(oseq[1]) \notin {2, 3} THEN None
        ELSE LdapMsg_from_seq(oseq[1], st)

-----------------------------------------------------------------------------
(* The stream codec: LdapCodec (Decoder and Encoder<LdapMsg>)              *)

\* Encoder::encode: the bytes appended to the buffer.
EncodeBytes(m) == WriteTag(LdapMsg_into_tag(m))

\* decode_done without the buf.clear() / buf.advance(size) step.
decode_done_no_advance(b, size, m) ==
    [kind |-> IF IsSome(m) THEN "Some" ELSE "Err", msg |-> m, buf |-> b]

\* decode_done converting first and dropping the frame only on success.
decode_done_keeps_failed(b, size, m) ==
    [kind |-> IF IsSome(m) THEN "Some" ELSE "Err",
     msg |-> m,
     buf |-> IF IsNone(m) THEN b
             ELSE IF size = Len(b) THEN << >> ELSE SubSeq(b, size + 1, Len(b))]

\* The tail of Decoder::decode once the parser reported Done(Consume(size), msg):
\* the frame is dropped from the buffer, then the element is converted.
decode_done(b, size, m) ==
    [kind |-> IF IsSome(m) THEN "Some" ELSE "Err",
     msg |-> m,
     buf |-> IF size = Len(b) THEN << >> ELSE SubSeq(b, size + 1, Len(b))]

\* decode_parsed dropping what it was given when the parser wants more input.
decode_parsed_drops(b, p, st) ==
    CASE p.st = "Continue" -> [kind |-> "None", msg |-> None, buf |-> << >>]
      [] p.st = "Error" -> [kind |-> "Err", msg |-> None, buf |-> b]
      [] p.st = "Done" -> decode_done(b, p.size, LdapMsg_try_from(p.tag, st))

\* decode_parsed discarding the buffer when the parser reports an error.
decode_parsed_error_clears(b, p, st) ==
    CASE p.st = "Continue" -> [kind |-> "None", msg |-> None, buf |-> b]
      [] p.st = "Error" -> [kind |-> "Err", msg |-> None, buf |-> << >>]
      [] p.st = "Done" -> decode_done(b, p.size, LdapMsg_try_from(p.tag, st))

\* Decoder::decode past the parser call: what is returned (kind "None" for
\* Ok(None), "Some" for Ok(Some(msg)), "Err" for Err) and the buffer left behind.
\* The parser reports Done only with Move::Consume(size).
decode_parsed(b, p, st) ==
    CASE p.st = "Continue" -> [kind |-> "None", msg |-> None, buf |-> b]
      [] p.st = "Error" -> [kind |-> "Err", msg |-> None, buf |-> b]
      [] p.st = "Done" -> decode_done(b, p.size, LdapMsg_try_from(p.tag, st))

\* Decoder::decode on buffer b.
decode(b, st) == decode_parsed(b, ParseTag(b), st)

NoCall == [kind |-> "Idle", msg |-> None, before |-> << >>, pkind |-> "Idle", pbefore |-> << >>]

NoDebug == None

Init ==
    /\ strict \in BOOLEAN
    /\ buf = << >>
    /\ wire = << >>
    /\ sent = << >>
    /\ res = NoCall
    /\ out = << >>
    /\ dbg = NoDebug
    /\ conv = << >>

\* A variant that writes the frame at the front of the buffer.
Encode_at_front(m) ==
    /\ buf' = EncodeBytes(m) \o buf
    /\ sent' = Append(sent, [m |-> Some(m), tag |-> LdapMsg_into_tag(m), bytes |-> EncodeBytes(m)])
    /\ UNCHANGED <<strict, wire, res, out, dbg, conv>>

\* codec.encode(m, &mut buf)
Encode(m) ==
    /\ buf' = buf \o EncodeBytes(m)
    /\ sent' = Append(sent, [m |-> Some(m), tag |-> LdapMsg_into_tag(m), bytes |-> EncodeBytes(m)])
    /\ UNCHANGED <<strict, wire, res, out, dbg, conv>>

\* The effect of a decode call that returned d.
DecodeReturns(d) ==
    /\ buf' = d.buf
    /\ res' = [kind |-> d.kind, msg |-> d.msg, before |-> buf,
               pkind |-> res.kind, pbefore |-> res.before]
    /\ out' = IF d.kind = "None" THEN out ELSE Append(out, d.msg)
    /\ UNCHANGED <<strict, wire, sent, dbg, conv>>

\* codec.decode(&mut buf)
Decode == DecodeReturns(decode(buf, strict))

\* A peer encodes m into its own write buffer.
PeerEncode(m) ==
    /\ wire' = EncodeBytes(m)
    /\ sent' = Append(sent, [m |-> Some(m), tag |-> LdapMsg_into_tag(m), bytes |-> EncodeBytes(m)])
    /\ UNCHANGED <<strict, buf, res, out, dbg, conv>>

\* A peer writes the frame f (any BER element) to the stream.
PeerWrite(f) ==
    /\ wire' = WriteTag(f)
    /\ sent' = Append(sent, [m |-> None, tag |-> f, bytes |-> WriteTag(f)])
    /\ UNCHANGED <<strict, buf, res, out, dbg, conv>>

\* The transport delivers the next k bytes of the stream into the read
\* buffer: a first part of the pending bytes, or all that is left of them.
Transfer(k) ==
    /\ k \in 1..Len(wire)
    /\ Len(buf) = 0 \/ k = Len(wire)
    /\ buf' = buf \o SubSeq(wire, 1, k)
    /\ wire' = SubSeq(wire, k + 1, Len(wire))
    /\ UNCHANGED <<strict, sent, res, out, dbg, conv>>

-----------------------------------------------------------------------------
(* The values the operations are exercised on                              *)

\* Strings (as UTF-8 bytes): "", "a", "b", "c", "cn", the two-byte "é".
StrEmpty == << >>

StrA == <<97>>

StrB == <<98>>

StrC == <<99>>

StrCn == <<99, 110>>

StrAccent == <<195, 169>>

\* A byte string that is not UTF-8.
BytesNotUtf8 == <<200, 0>>

\* "userPassword"
StrUserPassword == <<117, 115, 101, 114, 80, 97, 115, 115, 119, 111, 114, 100>>

\* A string long enough that its length needs the long form.
LongLen == 130

StrLong == [i \in 1..LongLen |-> 97]

Uuid1 == [i \in 1..UuidLen |-> 17]

Uuid2 == [i \in 1..UuidLen |-> 34]

MaxInt == 2147483647

MsgIds == {0, 1, 255, 65536, MaxInt}

ResultOk == [code |-> "Success", matcheddn |-> StrEmpty, message |-> StrEmpty, referral |-> << >>]

Results ==
    {[ResultOk EXCEPT !.code = LdapResultCodeTable[i][2]] : i \in DOMAIN LdapResultCodeTable}
    \cup {[ResultOk EXCEPT !.matcheddn = StrCn, !.message = StrAccent]}

ResultsWithReferral ==
    {[ResultOk EXCEPT !.code = "Referral", !.referral = r] : r \in {<<StrA>>, <<StrA, StrB>>}}

SubstringFilters ==
    {[t |-> "Substring", a |-> StrCn, sub |-> [initial |-> i, any |-> a, final_ |-> f]] :
        i \in {None, Some(StrA), Some(StrEmpty)},
        a \in {<< >>, <<StrB>>, <<StrB, StrC>>},
        f \in {None, Some(StrC)}}

SimpleFilters ==
    {[t |-> "Present", a |-> StrCn], [t |-> "Present", a |-> StrEmpty],
     [t |-> "Equality", a |-> StrCn, v |-> StrA], [t |-> "Equality", a |-> StrAccent, v |-> StrEmpty]}

Filters ==
    SimpleFilters \cup SubstringFilters
    \cup {[t |-> "Not", f |-> f] : f \in SimpleFilters}
    \cup {[t |-> "And", fs |-> fs] : fs \in {<< >>, <<[t |-> "Present", a |-> StrCn]>>,
                                             <<[t |-> "Present", a |-> StrCn],
                                               [t |-> "Equality", a |-> StrCn, v |-> StrA]>>}}
    \cup {[t |-> "Or", fs |-> fs] : fs \in {<< >>,
                                            <<[t |-> "Equality", a |-> StrCn, v |-> StrA],
                                              [t |-> "Not", f |-> [t |-> "Present", a |-> StrA]]>>}}

AttrLists == {<< >>, <<StrCn>>, <<StrCn, StrA>>, <<StrA, StrCn>>, <<StrA, StrA, StrEmpty>>}

SearchBase ==
    [t |-> "SearchRequest", base |-> StrA, scope |-> "Subtree", aliases |-> "Never",
     sizelimit |-> 0, timelimit |-> 0, typesonly |-> FALSE,
     filter |-> [t |-> "Present", a |-> StrCn], attrs |-> << >>]

\* Search requests that ask for no attribute.
SearchRequestsNoAttrs ==
    {[SearchBase EXCEPT !.scope = x] : x \in {"Base", "OneLevel", "Subtree"}}
    \cup {[SearchBase EXCEPT !.aliases = x] : x \in {"Never", "InSearching", "FindingBaseObj", "Always"}}
    \cup {[SearchBase EXCEPT !.sizelimit = x] : x \in {1, 128, 1000, MaxInt}}
    \cup {[SearchBase EXCEPT !.timelimit = x] : x \in {1, 256}}
    \cup {[SearchBase EXCEPT !.typesonly = TRUE], [SearchBase EXCEPT !.base = StrEmpty]}
    \cup {[SearchBase EXCEPT !.filter = f] : f \in Filters}

\* Search requests with every attribute list.
SearchRequests ==
    SearchRequestsNoAttrs
    \cup {[SearchBase EXCEPT !.attrs = l] : l \in AttrLists}
    \cup {[SearchBase EXCEPT !.attrs = <<StrCn, StrA>>, !.filter = f] : f \in SubstringFilters}

PartialAttributes ==
    {[atype |-> a, vals |-> v] : a \in {StrCn, StrUserPassword},
                                 v \in {<< >>, <<StrA>>, <<StrA, StrB>>, <<BytesNotUtf8, StrA, StrA>>}}

AttributeLists ==
    {<< >>} \cup {<<a>> : a \in PartialAttributes}
    \cup {<<[atype |-> StrCn, vals |-> <<StrA>>], [atype |-> StrA, vals |-> <<StrB, StrC>>]>>}

ModifyLists ==
    {<< >>}
    \cup {<<[operation |-> o, modification |-> [atype |-> StrCn, vals |-> <<StrA>>]]>> :
            o \in {"Add", "Delete", "Replace"}}
    \cup {<<[operation |-> "Delete", modification |-> [atype |-> StrCn, vals |-> << >>]],
            [operation |-> "Add", modification |-> [atype |-> StrA, vals |-> <<StrB, StrC>>]]>>}

SyncRequestControls ==
    {[t |-> "SyncRequest", criticality |-> c, mode |-> m, cookie |-> k, reload_hint |-> h] :
        c \in BOOLEAN, m \in {"RefreshOnly", "RefreshAndPersist"},
        k \in {None, Some(StrC), Some(BytesNotUtf8)}, h \in BOOLEAN}

SyncStateControls ==
    {[t |-> "SyncState", state |-> x, entry_uuid |-> Uuid1, cookie |-> k] :
        x \in {"Present", "Add", "Modify", "Delete"}, k \in {None, Some(StrC)}}

SyncDoneControls ==
    {[t |-> "SyncDone", cookie |-> k, refresh_deletes |-> d] :
        k \in {None, Some(StrC), Some(StrEmpty)}, d \in BOOLEAN}

AdDirsyncControls ==
    {[t |-> "AdDirsync", flags |-> I64FromInt(f), max_bytes |-> I64FromInt(b), cookie |-> k] :
        f \in {0, 1, MaxInt}, b \in {0, 65536}, k \in {None, Some(StrC), Some(StrEmpty)}}

Controls == SyncRequestControls \cup SyncStateControls \cup SyncDoneControls \cup AdDirsyncControls

IntermediateResponses ==
    {[t |-> "SyncInfoNewCookie", cookie |-> k] : k \in {StrEmpty, StrC}}
    \cup {[t |-> x, cookie |-> k, done |-> d] :
            x \in {"SyncInfoRefreshDelete", "SyncInfoRefreshPresent"},
            k \in {None, Some(StrC)}, d \in BOOLEAN}
    \cup {[t |-> "SyncInfoIdSet", cookie |-> k, refresh_deletes |-> d, syncuuids |-> u] :
            k \in {None, Some(StrC)}, d \in BOOLEAN, u \in {<< >>, <<Uuid1>>, <<Uuid1, Uuid2>>}}
    \cup {[t |-> "Raw", name |-> n, value |-> v] :
            n \in {None, Some(StrA), Some(OidSyncInfo)},
            v \in {None, Some(StrEmpty), Some(BytesNotUtf8)}}

ExtendedRequests ==
    {[t |-> "ExtendedRequest", name |-> n, value |-> v] :
        n \in {StrA, OidWhoami, OidPasswordModify}, v \in {None, Some(StrEmpty), Some(BytesNotUtf8)}}

ExtendedResponses ==
    {[t |-> "ExtendedResponse", res |-> ResultOk, name |-> n, value |-> v] :
        n \in {None, Some(StrA)}, v \in {None, Some(StrEmpty), Some(BytesNotUtf8)}}
    \cup {[t |-> "ExtendedResponse", res |-> r, name |-> Some(StrA), value |-> None] :
            r \in ResultsWithReferral}

BindRequests ==
    {[t |-> "BindRequest", dn |-> d, cred |-> [t |-> "Simple", pw |-> w]] :
        d \in {StrEmpty, StrCn}, w \in {StrEmpty, StrA, StrAccent}}

BindResponses ==
    {[t |-> "BindResponse", res |-> r, saslcreds |-> k] :
        r \in {ResultOk, [ResultOk EXCEPT !.code = "InvalidCredentials"]},
        k \in {None, Some(StrC), Some(StrEmpty)}}
    \cup {[t |-> "BindResponse", res |-> r, saslcreds |-> None] : r \in ResultsWithReferral}

ResultOps ==
    {[t |-> x, res |-> r] :
        x \in {"SearchResultDone", "ModifyResponse", "AddResponse", "DelResponse"},
        r \in {ResultOk, [ResultOk EXCEPT !.code = "NoSuchObject", !.message = StrA]}}
    \cup {[t |-> "SearchResultDone", res |-> r] : r \in Results}
    \cup {[t |-> x, res |-> r] :
            x \in {"SearchResultDone", "ModifyResponse", "AddResponse", "DelResponse"},
            r \in ResultsWithReferral}

EntryOps ==
    {[t |-> "SearchResultEntry", dn |-> StrCn, attributes |-> l] : l \in AttributeLists}
    \cup {[t |-> "AddRequest", dn |-> StrCn, attributes |-> l] : l \in AttributeLists}
    \cup {[t |-> "ModifyRequest", dn |-> StrCn, changes |-> l] : l \in ModifyLists}

SmallOps ==
    {[t |-> "UnbindRequest"]}
    \cup {[t |-> "DelRequest", dn |-> d] : d \in {StrEmpty, StrCn, StrAccent, StrLong}}
    \cup {[t |-> "AbandonRequest", id |-> i] : i \in MsgIds}

Ops ==
    BindRequests \cup BindResponses \cup SmallOps \cup SearchRequests \cup EntryOps \cup ResultOps
    \cup ExtendedRequests \cup ExtendedResponses
    \cup {[t |-> "IntermediateResponse", ir |-> v] : v \in IntermediateResponses}

ControlLists ==
    {<<c>> : c \in Controls}
    \cup {<<[t |-> "SyncDone", cookie |-> Some(StrC), refresh_deletes |-> TRUE],
            [t |-> "SyncState", state |-> "Add", entry_uuid |-> Uuid2, cookie |-> None]>>}

\* The messages the codec is exercised on: every operation without
\* controls, every message id, and every control list on two operations.
Msgs ==
    {[msgid |-> 1, op |-> o, ctrl |-> << >>] : o \in Ops}
    \cup {[msgid |-> i, op |-> [t |-> "UnbindRequest"], ctrl |-> << >>] : i \in MsgIds}
    \cup {[msgid |-> 2, op |-> o, ctrl |-> l] :
            o \in {SearchBase, [t |-> "SearchResultDone", res |-> ResultOk]}, l \in ControlLists}

-----------------------------------------------------------------------------
(* One message encoded into an empty buffer, and decode calls               *)

NextRoundTrip ==
    \/ \E m \in Msgs : Len(sent) = 0 /\ Encode(m)
    \/ Decode

SpecRoundTrip == Init /\ [][NextRoundTrip]_vars

\* A decode call that was handed exactly the encoding of the message sent.
DecodedSent == Len(sent) = 1 /\ res.kind # "Idle" /\ res.before = sent[1].bytes

\* C1: a message encoded into an empty buffer and decoded by one call comes
\* back as Some(m) with m equal to the message sent, and the buffer is empty
\* afterwards.
C1_RoundTrip ==
    DecodedSent => res.kind = "Some" /\ res.msg = sent[1].m /\ buf = << >>

\* The call returned a message, but not the one that was sent.
C1_Differs ==
    DecodedSent /\ res.kind = "Some" /\ res.msg # sent[1].m

\* The OID a control is written under.
ControlOid(c) ==
    CASE c.t = "SyncRequest" -> OidSyncRequest
      [] c.t = "SyncState" -> OidSyncState
      [] c.t = "SyncDone" -> OidSyncDone
      [] c.t = "AdDirsync" -> OidAdDirsync

\* C11: the encoding of a message is a universal SEQUENCE holding the
\* INTEGER msgid, then the application-class operation element, then a
\* context-class id-0 constructed controls element that is there exactly
\* when the control list is not empty and that holds one element per
\* control, in list order; the bytes appended are the encoding of that
\* element.
C11_EncodedShape ==
    \A i \in 1..Len(sent) : IsSome(sent[i].m) =>
        LET m == sent[i].m[1]
            t == sent[i].tag
        IN  /\ t.class = "Universal" /\ t.id = TypesSequence /\ t.pc = "C"
            /\ t.val[1].class = "Universal" /\ t.val[1].id = TypesInteger /\ t.val[1].pc = "P"
            /\ AndThenInt(Some(t.val[1].val)) = Some(I64FromInt(m.msgid))
            /\ t.val[2].class = "Application"
            /\ Len(t.val) = (IF Len(m.ctrl) = 0 THEN 2 ELSE 3)
            /\ Len(m.ctrl) > 0 =>
                /\ t.val[3].class = "Context" /\ t.val[3].id = 0 /\ t.val[3].pc = "C"
                /\ Len(t.val[3].val) = Len(m.ctrl)
                /\ \A j \in 1..Len(m.ctrl) :
                      /\ t.val[3].val[j].id = TypesSequence /\ t.val[3].val[j].pc = "C"
                      /\ t.val[3].val[j].val[1].val = ControlOid(m.ctrl[j])
            /\ ParseTag(sent[i].bytes) = PDone(Len(sent[i].bytes), t)

\* A message with two controls of different kinds was encoded.
C11_TwoControls ==
    /\ Len(sent) = 1 /\ IsSome(sent[1].m)
    /\ Len(sent[1].m[1].ctrl) = 2
    /\ sent[1].m[1].ctrl[1].t # sent[1].m[1].ctrl[2].t
    /\ Len(sent[1].tag.val) = 3 /\ Len(sent[1].tag.val[3].val) = 2

\* The operations that carry a result.
ResultOpNames ==
    {"BindResponse", "SearchResultDone", "ModifyResponse", "AddResponse", "DelResponse",
     "ExtendedResponse"}

\* The positions of the context-class id-3 children of an operation element.
ReferralAt(optag) == {j \in 1..Len(optag.val) : optag.val[j].class = "Context" /\ optag.val[j].id = 3}

\* C15: encode writes the context id-3 referral element of a result
\* exactly when the referral list is not empty, one OCTET STRING per
\* referral; the result decode returns has an empty referral list whether
\* or not that element is on the wire.
C15_ReferralDropped ==
    (DecodedSent /\ sent[1].m[1].op.t \in ResultOpNames) =>
        LET sentres == sent[1].m[1].op.res
            optag == sent[1].tag.val[2]
        IN  /\ (ReferralAt(optag) # {}) <=> (Len(sentres.referral) > 0)
            /\ Len(sentres.referral) > 0 =>
                /\ ReferralAt(optag) = {4}
                /\ optag.val[4].pc = "C"
                /\ [j \in 1..Len(optag.val[4].val) |-> optag.val[4].val[j].val] = sentres.referral
            /\ res.kind = "Some"
            /\ res.msg[1].op.t = sent[1].m[1].op.t
            /\ res.msg[1].op.res.referral = << >>

\* A result with two referrals was written with its referral element and
\* came back with none.
C15_TwoReferralsLost ==
    /\ DecodedSent /\ sent[1].m[1].op.t \in ResultOpNames
    /\ Len(sent[1].m[1].op.res.referral) = 2
    /\ Len(sent[1].tag.val[2].val[4].val) = 2
    /\ res.kind = "Some" /\ res.msg[1].op.res.referral = << >>

\* A message with exactly one control, of the kind, was sent and decoded.
DecodedControl(kind) ==
    /\ DecodedSent
    /\ Len(sent[1].m[1].ctrl) = 1 /\ sent[1].m[1].ctrl[1].t = kind

\* C19: a SyncRequest control comes back from encode and decode with its
\* four fields as they were, for every criticality, mode, cookie (absent
\* or present) and reload_hint.
C19_SyncRequestRoundTrip ==
    DecodedControl("SyncRequest") =>
        /\ res.kind = "Some"
        /\ res.msg[1].ctrl = sent[1].m[1].ctrl

\* A SyncRequest without a cookie and with reload_hint set came back with
\* reload_hint false.
C19_ReloadHintLost ==
    /\ DecodedControl("SyncRequest")
    /\ IsNone(sent[1].m[1].ctrl[1].cookie) /\ sent[1].m[1].ctrl[1].reload_hint
    /\ res.kind = "Some" /\ Len(res.msg[1].ctrl) = 1
    /\ ~res.msg[1].ctrl[1].reload_hint

\* Criticality, mode and cookie always come back, and reload_hint does
\* when there is a cookie or it is false.
C19_AllButReloadHint ==
    DecodedControl("SyncRequest") =>
        /\ res.kind = "Some" /\ Len(res.msg[1].ctrl) = 1
        /\ res.msg[1].ctrl[1].criticality = sent[1].m[1].ctrl[1].criticality
        /\ res.msg[1].ctrl[1].mode = sent[1].m[1].ctrl[1].mode
        /\ res.msg[1].ctrl[1].cookie = sent[1].m[1].ctrl[1].cookie
        /\ (IsSome(sent[1].m[1].ctrl[1].cookie) \/ ~sent[1].m[1].ctrl[1].reload_hint) =>
              res.msg[1].ctrl = sent[1].m[1].ctrl

\* C20: a SyncDone control comes back from encode and decode with its
\* cookie and its refresh_deletes as they were, for each of the four
\* combinations of a cookie and a refresh_deletes BOOLEAN being in the body.
C20_SyncDoneRoundTrip ==
    DecodedControl("SyncDone") =>
        /\ res.kind = "Some"
        /\ res.msg[1].ctrl = sent[1].m[1].ctrl

\* A SyncDone without a cookie and with refresh_deletes set came back with
\* refresh_deletes false.
C20_RefreshDeletesLost ==
    /\ DecodedControl("SyncDone")
    /\ IsNone(sent[1].m[1].ctrl[1].cookie) /\ sent[1].m[1].ctrl[1].refresh_deletes
    /\ res.kind = "Some" /\ Len(res.msg[1].ctrl) = 1
    /\ IsNone(res.msg[1].ctrl[1].cookie) /\ ~res.msg[1].ctrl[1].refresh_deletes

\* The cookie always comes back, and refresh_deletes does when there is a
\* cookie or it is false.
C20_AllButRefreshDeletes ==
    DecodedControl("SyncDone") =>
        /\ res.kind = "Some" /\ Len(res.msg[1].ctrl) = 1
        /\ res.msg[1].ctrl[1].cookie = sent[1].m[1].ctrl[1].cookie
        /\ (IsSome(sent[1].m[1].ctrl[1].cookie) \/ ~sent[1].m[1].ctrl[1].refresh_deletes) =>
              res.msg[1].ctrl = sent[1].m[1].ctrl

\* The elements of the one control written, and the element its value holds.
SentControlSeq == sent[1].tag.val[3].val[1].val

SentControlBody == ParseTag(SentControlSeq[Len(SentControlSeq)].val).tag

\* The AdDirsync control was written with a criticality BOOLEAN true and a
\* body SEQUENCE of INTEGER, INTEGER and OCTET STRING, the string being
\* empty for an absent cookie.
AdDirsyncShape ==
    /\ Len(SentControlSeq) = 3
    /\ SentControlSeq[2] = Prim("Universal", TypesBoolean, <<255>>)
    /\ SentControlBody.class = "Universal" /\ SentControlBody.id = TypesSequence
    /\ SentControlBody.pc = "C" /\ Len(SentControlBody.val) = 3
    /\ \A i \in 1..2 : /\ SentControlBody.val[i].class = "Universal"
                       /\ SentControlBody.val[i].id = TypesInteger
                       /\ SentControlBody.val[i].pc = "P"
    /\ SentControlBody.val[3] =
          UOctetString(IF IsSome(sent[1].m[1].ctrl[1].cookie)
                       THEN sent[1].m[1].ctrl[1].cookie[1] ELSE << >>)

\* C21: an AdDirsync control is written with criticality true and a body of
\* flags, max_bytes and cookie (empty when absent), and comes back from
\* encode and decode equal to the original for every flags, max_bytes and
\* cookie, absent or present.
C21_AdDirsyncRoundTrip ==
    DecodedControl("AdDirsync") =>
        /\ AdDirsyncShape
        /\ res.kind = "Some"
        /\ res.msg[1].ctrl = sent[1].m[1].ctrl

\* An AdDirsync without a cookie came back with an empty cookie present.
C21_AbsentCookieBecomesEmpty ==
    /\ DecodedControl("AdDirsync")
    /\ IsNone(sent[1].m[1].ctrl[1].cookie)
    /\ res.kind = "Some" /\ Len(res.msg[1].ctrl) = 1
    /\ res.msg[1].ctrl[1].cookie = Some(<< >>)
    /\ res.msg[1].ctrl[1].flags = sent[1].m[1].ctrl[1].flags
    /\ res.msg[1].ctrl[1].max_bytes = sent[1].m[1].ctrl[1].max_bytes

\* The written shape is as stated, flags and max_bytes always come back,
\* and the cookie does when it is present.
C21_AllButAbsentCookie ==
    DecodedControl("AdDirsync") =>
        /\ AdDirsyncShape
        /\ res.kind = "Some" /\ Len(res.msg[1].ctrl) = 1
        /\ res.msg[1].ctrl[1].flags = sent[1].m[1].ctrl[1].flags
        /\ res.msg[1].ctrl[1].max_bytes = sent[1].m[1].ctrl[1].max_bytes
        /\ IsSome(sent[1].m[1].ctrl[1].cookie) => res.msg[1].ctrl = sent[1].m[1].ctrl

\* An IntermediateResponse was sent and decoded.
DecodedIntermediate == DecodedSent /\ sent[1].m[1].op.t = "IntermediateResponse"

SentIr == sent[1].m[1].op.ir

\* C23: every IntermediateResponse value comes back from encode and decode
\* equal to the original: the four sync info variants for every
\* combination of absent or present cookie and boolean value, and Raw for
\* every absent or present name and value.
C23_IntermediateRoundTrip ==
    DecodedIntermediate =>
        /\ res.kind = "Some"
        /\ res.msg[1].op = sent[1].m[1].op

\* A SyncInfoRefreshPresent with a cookie and done true came back without
\* its cookie.
C23_RefreshPresentCookieLost ==
    /\ DecodedIntermediate
    /\ SentIr.t = "SyncInfoRefreshPresent" /\ IsSome(SentIr.cookie) /\ SentIr.done
    /\ res.kind = "Some"
    /\ res.msg[1].op.ir = [t |-> "SyncInfoRefreshPresent", cookie |-> None, done |-> TRUE]

\* A SyncInfoIdSet with a cookie and refresh_deletes false came back
\* without its cookie.
C23_IdSetCookieLost ==
    /\ DecodedIntermediate
    /\ SentIr.t = "SyncInfoIdSet" /\ IsSome(SentIr.cookie) /\ ~SentIr.refresh_deletes
    /\ res.kind = "Some"
    /\ res.msg[1].op.ir = [SentIr EXCEPT !.cookie = None]

\* The values that do not come back: a present cookie directly before an
\* absent BOOLEAN, and a Raw that carries the sync info OID and a value.
NotRoundTripping(ir) ==
    \/ ir.t = "SyncInfoRefreshPresent" /\ IsSome(ir.cookie) /\ ir.done
    \/ ir.t = "SyncInfoIdSet" /\ IsSome(ir.cookie) /\ ~ir.refresh_deletes
    \/ ir.t = "Raw" /\ ir.name = Some(OidSyncInfo) /\ IsSome(ir.value)

\* Every other IntermediateResponse comes back equal.
C23_OthersRoundTrip ==
    (DecodedIntermediate /\ ~NotRoundTripping(SentIr)) =>
        /\ res.kind = "Some"
        /\ res.msg[1].op = sent[1].m[1].op

-----------------------------------------------------------------------------
(* One encoded message reaching the read buffer in two parts               *)

\* The messages sent in two parts: every kind of operation, every message
\* id, and messages with controls.
SplitMsgs ==
    {[msgid |-> 1, op |-> o, ctrl |-> << >>] :
        o \in BindRequests \cup BindResponses \cup SmallOps \cup EntryOps
              \cup ExtendedRequests \cup ExtendedResponses
              \cup {[SearchBase EXCEPT !.attrs = l] : l \in AttrLists}
              \cup {[t |-> "IntermediateResponse", ir |-> v] : v \in IntermediateResponses}}
    \cup {[msgid |-> i, op |-> [t |-> "UnbindRequest"], ctrl |-> << >>] : i \in MsgIds}
    \cup {[msgid |-> 2, op |-> [t |-> "SearchResultDone", res |-> ResultOk], ctrl |-> l] :
            l \in {c \in ControlLists : c[1].t = "SyncDone"}}

NextSplit ==
    \/ \E m \in SplitMsgs : Len(sent) = 0 /\ PeerEncode(m)
    \/ \E k \in 1..Len(wire) : Transfer(k)
    \/ Decode

SpecSplit == Init /\ [][NextSplit]_vars

\* b is a strict prefix of e.
StrictPrefix(b, e) == Len(b) < Len(e) /\ b = SubSeq(e, 1, Len(b))

\* The frame sent is a valid one: the element that was written converts
\* to a message.
ValidFrame == Len(sent) = 1 /\ IsSome(LdapMsg_try_from(sent[1].tag, strict))

C4_NoneConsumesNothing ==
    [][(res' # res /\ res'.kind = "None") => (buf' = buf /\ Len(buf') = Len(buf))]_vars

\* Ok(None) was returned on a buffer holding part of a frame, and the
\* buffer still holds those bytes.
C4_NoneOnPartial ==
    /\ res.kind = "None" /\ Len(res.before) > 0 /\ buf = res.before
    /\ res.pkind = "None" /\ res.pbefore = << >>

-----------------------------------------------------------------------------
(* Messages encoded one after another into the buffer, and decode calls     *)

MaxFrames == 3

\* The messages of the stream: short and long frames, a message with
\* controls, a raw intermediate response carrying the sync info name, and
\* a sync info message.
StreamMsgs ==
    {[msgid |-> 1, op |-> [t |-> "UnbindRequest"], ctrl |-> << >>],
     [msgid |-> 65536, op |-> [t |-> "DelRequest", dn |-> StrLong], ctrl |-> << >>],
     [msgid |-> 2, op |-> [SearchBase EXCEPT !.attrs = <<StrCn>>], ctrl |-> << >>],
     [msgid |-> 3, op |-> [t |-> "SearchResultDone", res |-> ResultOk],
      ctrl |-> <<[t |-> "SyncDone", cookie |-> Some(StrC), refresh_deletes |-> TRUE]>>],
     [msgid |-> 4, op |-> [t |-> "BindRequest", dn |-> StrCn, cred |-> [t |-> "Simple", pw |-> StrA]],
      ctrl |-> << >>],
     [msgid |-> 5, op |-> [t |-> "IntermediateResponse",
                           ir |-> [t |-> "Raw", name |-> Some(OidSyncInfo), value |-> Some(StrEmpty)]],
      ctrl |-> << >>],
     [msgid |-> 6, op |-> [t |-> "IntermediateResponse",
                           ir |-> [t |-> "SyncInfoNewCookie", cookie |-> StrC]],
      ctrl |-> << >>]}

Next ==
    \/ \E m \in StreamMsgs : Len(sent) < MaxFrames /\ Encode(m)
    \/ Decode

Spec == Init /\ [][Next]_vars

\* The bytes of the frames i..Len(sent), one after another.
RECURSIVE FramesFrom(_)
FramesFrom(i) == IF i > Len(sent) THEN << >> ELSE sent[i].bytes \o FramesFrom(i + 1)

\* C3: with messages encoded one after another, the k-th decode call that
\* returns anything returns a message, the one the k-th frame decodes to;
\* the calls so far have consumed exactly their own frames, and once every
\* frame has been returned the buffer length is zero.
C3_OneMessagePerCall ==
    /\ Len(out) <= Len(sent)
    /\ \A k \in 1..Len(out) : IsSome(out[k]) /\ out[k] = LdapMsg_try_from(sent[k].tag, strict)
    /\ buf = FramesFrom(Len(out) + 1)
    /\ Len(out) = Len(sent) => Len(buf) = 0

\* The same with the calls that return an error counted as that frame's call.
C3_OneFramePerCall ==
    /\ Len(out) <= Len(sent)
    /\ \A k \in 1..Len(out) : out[k] = LdapMsg_try_from(sent[k].tag, strict)
    /\ buf = FramesFrom(Len(out) + 1)
    /\ Len(out) = Len(sent) => Len(buf) = 0

\* Two frames were in the buffer; the call for the first returned an error
\* and the call for the second its message.
C3_ErrorInStream ==
    /\ Len(sent) = 2 /\ Len(out) = 2 /\ IsNone(out[1]) /\ IsSome(out[2])
    /\ res.before = sent[2].bytes /\ Len(buf) = 0

\* The bytes of the buffer after the first n.
Appended(n) == SubSeq(buf', n + 1, Len(buf'))

-----------------------------------------------------------------------------
(* Debug rendering ({:?}) of the types that carry secrets                   *)

\* Text is a sequence of bytes; the literals of the formatters:
\* Simple("********")
TxtSimpleMasked == <<83, 105, 109, 112, 108, 101, 40, 34, 42, 42, 42, 42, 42, 42, 42, 42, 34, 41>>

\* ********
TxtMask == <<42, 42, 42, 42, 42, 42, 42, 42>>

\* vec![...]
TxtVecMask == <<118, 101, 99, 33, 91, 46, 46, 46, 93>>

\* Some(
TxtSomeOpen == <<83, 111, 109, 101, 40>>

\* )
TxtClose == <<41>>

\* None
TxtNone == <<78, 111, 110, 101>>

\* [
TxtListOpen == <<91>>

\* ]
TxtListClose == <<93>>

\* , 
TxtComma == <<44, 32>>

\* : 
TxtColon == <<58, 32>>

\*  { 
TxtStructOpen == <<32, 123, 32>>

\*  }
TxtStructClose == <<32, 125>>

\* "
TxtQuote == <<34>>

\* LdapPartialAttribute
TxtLdapPartialAttribute == <<76, 100, 97, 112, 80, 97, 114, 116, 105, 97, 108, 65, 116, 116, 114, 105, 98, 117, 116, 101>>

\* atype
TxtAtype == <<97, 116, 121, 112, 101>>

\* vals
TxtVals == <<118, 97, 108, 115>>

\* LdapExtendedRequest
TxtLdapExtendedRequest == <<76, 100, 97, 112, 69, 120, 116, 101, 110, 100, 101, 100, 82, 101, 113, 117, 101, 115, 116>>

\* name
TxtName == <<110, 97, 109, 101>>

\* value
TxtValue == <<118, 97, 108, 117, 101>>

\* LdapPasswordModifyRequest
TxtLdapPasswordModifyRequest == <<76, 100, 97, 112, 80, 97, 115, 115, 119, 111, 114, 100, 77, 111, 100, 105, 102, 121, 82, 101, 113, 117, 101, 115, 116>>

\* user_identity
TxtUserIdentity == <<117, 115, 101, 114, 95, 105, 100, 101, 110, 116, 105, 116, 121>>

\* old_password
TxtOldPassword == <<111, 108, 100, 95, 112, 97, 115, 115, 119, 111, 114, 100>>

\* new_password
TxtNewPassword == <<110, 101, 119, 95, 112, 97, 115, 115, 119, 111, 114, 100>>

\* s1, sep, s2, sep, ... for a sequence of texts.
RECURSIVE Join(_, _)
Join(texts, sep) ==
    IF Len(texts) = 0 THEN << >>
    ELSE IF Len(texts) = 1 THEN texts[1]
    ELSE texts[1] \o sep \o Join(Tail(texts), sep)

\* <str as Debug>: the string in quotes (the strings here need no escape).
DebugStr(s) == TxtQuote \o s \o TxtQuote

\* <u8 as Debug>: the decimal digits.
DebugU8(n) ==
    (IF n >= 100 THEN <<48 + (n \div 100)>> ELSE << >>)
    \o (IF n >= 10 THEN <<48 + ((n \div 10) % 10)>> ELSE << >>)
    \o <<48 + (n % 10)>>

\* <Vec<T> as Debug> over the texts of the elements.
DebugList(texts) == TxtListOpen \o Join(texts, TxtComma) \o TxtListClose

\* <Vec<u8> as Debug>
DebugBytes(bv) == DebugList([i \in 1..Len(bv) |-> DebugU8(bv[i])])

\* <Option<T> as Debug> over the text of the content.
DebugSome(text) == TxtSomeOpen \o text \o TxtClose

\* Formatter::debug_struct(name).field(..)...finish() over <<field, text>> pairs.
DebugStruct(name, fields) ==
    name \o TxtStructOpen
    \o Join([i \in 1..Len(fields) |-> fields[i][1] \o TxtColon \o fields[i][2]], TxtComma)
    \o TxtStructClose

LdapBindCred_fmt(v) == TxtSimpleMasked

LdapPartialAttribute_fmt(v) ==
    DebugStruct(TxtLdapPartialAttribute,
        << <<TxtAtype, DebugStr(v.atype)>>,
           <<TxtVals, IF v.atype = StrUserPassword /\ Len(v.vals) = 1
                      THEN DebugList(<<DebugStr(TxtMask)>>)
                      ELSE DebugList([i \in 1..Len(v.vals) |-> DebugBytes(v.vals[i])])>> >>)

\* The derived rendering, which prints the value bytes.
LdapExtendedRequest_fmt_derived(v) ==
    DebugStruct(TxtLdapExtendedRequest,
        << <<TxtName, DebugStr(v.name)>>,
           <<TxtValue, IF IsSome(v.value) THEN DebugSome(DebugBytes(v.value[1])) ELSE TxtNone>> >>)

LdapExtendedRequest_fmt(v) ==
    DebugStruct(TxtLdapExtendedRequest,
        << <<TxtName, DebugStr(v.name)>>,
           <<TxtValue, IF IsSome(v.value) THEN DebugSome(DebugStr(TxtVecMask)) ELSE TxtNone>> >>)

LdapPasswordModifyRequest_fmt(v) ==
    DebugStruct(TxtLdapPasswordModifyRequest,
        << <<TxtUserIdentity, IF IsSome(v.user_identity) THEN DebugSome(DebugStr(v.user_identity[1])) ELSE TxtNone>>,
           <<TxtOldPassword, IF IsSome(v.old_password) THEN DebugSome(DebugStr(TxtMask)) ELSE TxtNone>>,
           <<TxtNewPassword, IF IsSome(v.old_password) THEN DebugSome(DebugStr(TxtMask)) ELSE TxtNone>> >>)

\* format!("{:?}", v)
DebugFmt(v) ==
    CASE v.k = "LdapBindCred" -> LdapBindCred_fmt(v)
      [] v.k = "LdapPartialAttribute" -> LdapPartialAttribute_fmt(v)
      [] v.k = "LdapExtendedRequest" -> LdapExtendedRequest_fmt(v)
      [] v.k = "LdapPasswordModifyRequest" -> LdapPasswordModifyRequest_fmt(v)

\* A value is rendered, as by a log line.
Format(v) ==
    /\ dbg' = Some([v |-> v, text |-> DebugFmt(v)])
    /\ UNCHANGED <<strict, buf, wire, sent, res, out, conv>>

\* Secret contents: "Z9", "Z", "QQQ", "9Z9" (none occurs in a formatter
\* literal or in a field that is not secret).
Secrets == {<<90, 57>>, <<90>>, <<81, 81, 81>>, <<57, 90, 57>>}

MaxVals == 2

\* The value lists of an attribute: up to MaxVals secrets.
ValLists == UNION {[1..n -> Secrets] : n \in 0..MaxVals}

OptSecrets == {None} \cup {Some(s) : s \in Secrets}

DebugValues ==
    {[k |-> "LdapBindCred", pw |-> s] : s \in Secrets}
    \cup {[k |-> "LdapExtendedRequest", name |-> n, value |-> v] :
            n \in {StrA, OidPasswordModify}, v \in OptSecrets}
    \cup {[k |-> "LdapPasswordModifyRequest", user_identity |-> u, old_password |-> o, new_password |-> n] :
            u \in {None, Some(StrCn)}, o \in OptSecrets, n \in OptSecrets}
    \cup {[k |-> "LdapPartialAttribute", atype |-> a, vals |-> l] :
            a \in {StrUserPassword, StrCn}, l \in ValLists}

NextDebug == \E v \in DebugValues : Format(v)

SpecDebug == Init /\ [][NextDebug]_vars

\* text holds the bytes s somewhere.
Contains(text, s) ==
    \E i \in 1..(Len(text) - Len(s) + 1) : SubSeq(text, i, i + Len(s) - 1) = s

\* The secret contents a value carries.
SecretsOf(v) ==
    CASE v.k = "LdapBindCred" -> {v.pw}
      [] v.k = "LdapExtendedRequest" -> {v.value[i] : i \in 1..Len(v.value)}
      [] v.k = "LdapPasswordModifyRequest" ->
            {v.old_password[i] : i \in 1..Len(v.old_password)}
            \cup {v.new_password[i] : i \in 1..Len(v.new_password)}
      [] v.k = "LdapPartialAttribute" -> {v.vals[i] : i \in 1..Len(v.vals)}

\* v and w differ at most in the content of their secrets: the same fields
\* are present, with the same number of values.
SameButSecrets(v, w) ==
    /\ v.k = w.k
    /\ CASE v.k = "LdapBindCred" -> TRUE
         [] v.k = "LdapExtendedRequest" -> v.name = w.name /\ Len(v.value) = Len(w.value)
         [] v.k = "LdapPasswordModifyRequest" ->
                /\ v.user_identity = w.user_identity
                /\ Len(v.old_password) = Len(w.old_password)
                /\ Len(v.new_password) = Len(w.new_password)
         [] v.k = "LdapPartialAttribute" -> v.atype = w.atype /\ Len(v.vals) = Len(w.vals)

\* The rendering last made shows nothing of the secrets of the value: it
\* holds none of them, and every value that differs only in them renders
\* to the same text.
Redacted ==
    /\ \A s \in SecretsOf(dbg[1].v) : ~Contains(dbg[1].text, s)
    /\ \A w \in DebugValues : SameButSecrets(dbg[1].v, w) => DebugFmt(w) = dbg[1].text

\* C5: the Debug rendering of LdapBindCred::Simple, of an LdapExtendedRequest
\* and of an LdapPasswordModifyRequest never contains the password or value
\* content, and two values that differ only in that content render to the
\* same text, whichever fields are present.
C5_SecretsRedacted ==
    (IsSome(dbg) /\ dbg[1].v.k \in {"LdapBindCred", "LdapExtendedRequest", "LdapPasswordModifyRequest"})
        => Redacted

\* A password modify request with two different passwords has been rendered.
C5_BothPasswords ==
    /\ IsSome(dbg) /\ dbg[1].v.k = "LdapPasswordModifyRequest"
    /\ IsSome(dbg[1].v.old_password) /\ IsSome(dbg[1].v.new_password)
    /\ dbg[1].v.old_password # dbg[1].v.new_password
    /\ Contains(dbg[1].text, TxtMask)

\* C6: the Debug rendering of an LdapPartialAttribute of type userPassword
\* shows nothing of its values, however many it has: it does not hold them,
\* and two such attributes that differ only in the content of their values
\* render to the same text.
C6_UserPasswordRedacted ==
    (IsSome(dbg) /\ dbg[1].v.k = "LdapPartialAttribute" /\ dbg[1].v.atype = StrUserPassword)
        => Redacted

\* A userPassword attribute with several values has been rendered, and
\* another with values of other content renders differently.
C6_SeveralValuesShown ==
    /\ IsSome(dbg) /\ dbg[1].v.k = "LdapPartialAttribute" /\ dbg[1].v.atype = StrUserPassword
    /\ Len(dbg[1].v.vals) > 1
    /\ \E w \in DebugValues : SameButSecrets(dbg[1].v, w) /\ DebugFmt(w) # dbg[1].text

-----------------------------------------------------------------------------
(* Search requests                                                          *)

\* A decode call was handed exactly the encoding of a search request.
DecodedSearch == DecodedSent /\ sent[1].m[1].op.t = "SearchRequest"

\* C7: every SearchRequest, whatever its base, scope, aliases, limits,
\* types_only, filter tree and attrs list, decodes from its encoding to an
\* equal SearchRequest; the attrs list comes back with the same elements in
\* the same order.
C7_SearchRoundTrip ==
    DecodedSearch =>
        /\ res.kind = "Some"
        /\ res.msg[1].op = sent[1].m[1].op
        /\ res.msg[1].op.attrs = sent[1].m[1].op.attrs

\* A search request asking for attributes came back asking for none, all
\* its other fields as sent.
C7_AttrsLost ==
    /\ DecodedSearch /\ res.kind = "Some"
    /\ Len(sent[1].m[1].op.attrs) > 0
    /\ res.msg[1].op = [sent[1].m[1].op EXCEPT !.attrs = << >>]

\* Built with the strict feature, the search request comes back as sent.
C7_StrictRoundTrip ==
    (DecodedSearch /\ strict) => res.kind = "Some" /\ res.msg[1].op = sent[1].m[1].op

-----------------------------------------------------------------------------
(* Frames a peer writes element by element                                  *)

Classes == {"Universal", "Application", "Context", "Private"}

\* The operation ids exercised: every id of the table, and what lies between.
MaxOpId == 26

MsgIdTag(i) == TagInteger("Universal", TypesInteger, i)

\* One operation of every kind, each of which converts back from its tag.
OpSamples ==
    {[t |-> "BindRequest", dn |-> StrCn, cred |-> [t |-> "Simple", pw |-> StrA]],
     [t |-> "BindResponse", res |-> ResultOk, saslcreds |-> None],
     [t |-> "UnbindRequest"],
     [SearchBase EXCEPT !.attrs = <<StrCn>>],
     [t |-> "SearchResultEntry", dn |-> StrCn, attributes |-> <<[atype |-> StrCn, vals |-> <<StrA>>]>>],
     [t |-> "SearchResultDone", res |-> ResultOk],
     [t |-> "ModifyRequest", dn |-> StrCn,
      changes |-> <<[operation |-> "Replace", modification |-> [atype |-> StrCn, vals |-> <<StrA>>]]>>],
     [t |-> "ModifyResponse", res |-> ResultOk],
     [t |-> "AddRequest", dn |-> StrCn, attributes |-> <<[atype |-> StrCn, vals |-> <<StrA>>]>>],
     [t |-> "AddResponse", res |-> ResultOk],
     [t |-> "DelRequest", dn |-> StrCn],
     [t |-> "DelResponse", res |-> ResultOk],
     [t |-> "AbandonRequest", id |-> 1],
     [t |-> "ExtendedRequest", name |-> StrA, value |-> None],
     [t |-> "ExtendedResponse", res |-> ResultOk, name |-> None, value |-> None],
     [t |-> "IntermediateResponse", ir |-> [t |-> "Raw", name |-> Some(StrA), value |-> None]]}

OpSampleTags == {LdapOp_into_tag(o) : o \in OpSamples}

\* The same payload under the other form: the children written out as the
\* content of a primitive, or the content wrapped as one child.
OtherForm(t) ==
    IF t.pc = "C" THEN Prim(t.class, t.id, WriteTags(t.val))
    ELSE Cons(t.class, t.id, <<UOctetString(t.val)>>)

\* Operation tags: the samples, and each under every class, every id and
\* the other form.
OpTags ==
    OpSampleTags
    \cup {[t EXCEPT !.class = c] : t \in OpSampleTags, c \in Classes}
    \cup {[t EXCEPT !.id = i] : t \in OpSampleTags, i \in 0..MaxOpId}
    \cup {OtherForm(t) : t \in OpSampleTags}

OpFrames == {USequence(<<MsgIdTag(1), o>>) : o \in OpTags}

\* Controls that convert, and come back as they were written.
GoodControls ==
    {[t |-> "SyncRequest", criticality |-> TRUE, mode |-> "RefreshAndPersist",
      cookie |-> Some(StrC), reload_hint |-> TRUE],
     [t |-> "SyncState", state |-> "Modify", entry_uuid |-> Uuid1, cookie |-> None],
     [t |-> "SyncDone", cookie |-> Some(StrC), refresh_deletes |-> TRUE],
     [t |-> "AdDirsync", flags |-> I64FromInt(1), max_bytes |-> I64FromInt(65536), cookie |-> Some(StrC)]}

GoodControlTags == {LdapControl_into_tag(c) : c \in GoodControls}

\* "1.2.3"
OidUnknown == <<49, 46, 50, 46, 51>>

\* Control elements that do not convert: an unknown OID, a body that is no
\* BER element, a body with a wrong entry, an element that is no sequence,
\* a sequence with four children.
BadControlTags ==
    {USequence(<<UOctetString(OidUnknown), UOctetString(WriteTag(USequence(<< >>)))>>),
     USequence(<<UOctetString(OidSyncDone), UOctetString(<<48, 5, 4, 1>>)>>),
     USequence(<<UOctetString(OidSyncState),
                 UOctetString(WriteTag(USequence(<<TagEnumerated(1), UOctetString(StrA)>>)))>>),
     UOctetString(OidSyncDone),
     USequence(<<UOctetString(OidSyncDone), TagBoolean(FALSE), TagBoolean(FALSE),
                 UOctetString(WriteTag(USequence(<< >>)))>>)}

ControlTags == GoodControlTags \cup BadControlTags

MaxControls == 3

\* The control elements of a message: up to MaxControls of them.
ControlTagLists == UNION {[1..n -> ControlTags] : n \in 0..MaxControls}

ControlFrames ==
    {USequence(<<MsgIdTag(7), LdapOp_into_tag([t |-> "SearchResultDone", res |-> ResultOk]),
                 TagSequence("Context", 0, l)>>) : l \in ControlTagLists}

\* The first n children of an outer element: a message id, an operation,
\* controls, and more.
OuterChildren(n) ==
    [j \in 1..n |-> CASE j = 1 -> MsgIdTag(1)
                     [] j = 2 -> TagNull("Application", 2)
                     [] OTHER -> TagSequence("Context", 0, << >>)]

MaxChildren == 4

\* Outer elements of every class and form, with the ids around SEQUENCE
\* and 0 to MaxChildren children.
OuterFrames ==
    {Cons(c, i, OuterChildren(n)) :
        c \in Classes, i \in {0, TypesSequence - 1, TypesSequence, TypesSet}, n \in 0..MaxChildren}
    \cup {Prim(c, TypesSequence, WriteTags(OuterChildren(n))) : c \in Classes, n \in 0..MaxChildren}

MaxIntBytes == 9

\* Contents of an INTEGER element, 0 to MaxIntBytes bytes long: all zero,
\* all ones, the largest and the smallest number of that width, and
\* bytes that are all different.
IntContents ==
    UNION {{[i \in 1..n |-> 0], [i \in 1..n |-> 255],
            [i \in 1..n |-> IF i = 1 THEN 127 ELSE 255],
            [i \in 1..n |-> IF i = 1 THEN 128 ELSE 0],
            [i \in 1..n |-> i]} : n \in 0..MaxIntBytes}

\* An unbind request behind each of these as the message id.
MsgIdFrames ==
    {USequence(<<Prim("Universal", TypesInteger, c), TagNull("Application", 2)>>) : c \in IntContents}

MaxCode == 90

\* The numbers tried as a result code: every small number, and the
\* neighbourhood of the one two-byte code.
CodeNumbers == 0..MaxCode \cup {4095, 4096, 4097}

\* A search result done whose ENUMERATED code is the number n.
CodeFrame(n) ==
    USequence(<<MsgIdTag(1),
                Cons("Application", 5, <<TagEnumerated(n), UOctetString(StrEmpty), UOctetString(StrA)>>)>>)

CodeFrames == {CodeFrame(n) : n \in CodeNumbers}

MaxVersion == 5

\* Contents of the version INTEGER of a bind request: the small numbers,
\* 3 with a leading zero byte, 768, 255 and no byte at all.
VersionContents == {<<n>> : n \in 0..MaxVersion} \cup {<<0, 3>>, <<3, 0>>, <<255>>, << >>}

\* Credential elements: the simple one, and elements of another class,
\* another id (3 is SASL) or the other form.
CredTags ==
    {Prim("Context", 0, StrA), Prim("Context", 0, StrEmpty), Prim("Context", 0, BytesNotUtf8),
     Prim("Universal", 0, StrA), Prim("Application", 0, StrA), Prim("Context", 1, StrA),
     Cons("Context", 0, << >>), Cons("Context", 3, <<UOctetString(StrA)>>),
     UOctetString(StrA)}

\* Bind requests written element by element, and the ones encode writes.
WrittenBindFrames ==
    {USequence(<<MsgIdTag(1),
                 Cons("Application", 0, <<Prim("Universal", TypesInteger, v), UOctetString(StrCn), c>>)>>) :
        v \in VersionContents, c \in CredTags}

EncodedBindFrames == {LdapMsg_into_tag([msgid |-> 1, op |-> b, ctrl |-> << >>]) : b \in BindRequests}

BindFrames == WrittenBindFrames \cup EncodedBindFrames

MaxState == 5

\* Contents of the state element of a SyncState body: every number up to
\* MaxState, no content, two content bytes for 2 and for 256, and 255.
StateContents == {<<n>> : n \in 0..MaxState} \cup {<< >>, <<0, 2>>, <<1, 0>>, <<255>>}

\* The state element: an ENUMERATED of such content, an INTEGER, an
\* ENUMERATED id under another class.
StateTags ==
    {Prim("Universal", TypesEnumerated, c) : c \in StateContents}
    \cup {Prim("Universal", TypesInteger, <<1>>), Prim("Context", TypesEnumerated, <<1>>)}

\* Contents of the entry_uuid element: 16 bytes, none, 15 and 17.
UuidContents == {Uuid1, Uuid2, << >>, SubSeq(Uuid1, 1, UuidLen - 1), Uuid1 \o <<0>>}

\* The cookie element: absent, some bytes, no bytes.
CookieTags == {<< >>, <<UOctetString(StrC)>>, <<UOctetString(StrEmpty)>>}

\* The criticality element: absent, a BOOLEAN, something else.
CriticalityTags == {<< >>, <<TagBoolean(TRUE)>>, <<TagBoolean(FALSE)>>, <<UOctetString(StrA)>>}

SyncStateBodies ==
    {USequence(<<s, UOctetString(u)>> \o k) : s \in StateTags, u \in UuidContents, k \in CookieTags}

SyncStateControlTags ==
    {USequence(<<UOctetString(OidSyncState)>> \o c \o <<UOctetString(WriteTag(b))>>) :
        c \in CriticalityTags, b \in SyncStateBodies}

SyncStateFrames ==
    {USequence(<<MsgIdTag(8), LdapOp_into_tag([t |-> "SearchResultDone", res |-> ResultOk]),
                 TagSequence("Context", 0, <<c>>)>>) : c \in SyncStateControlTags}

\* The first seven elements of a search request, the scope element being s.
SearchHead(s) ==
    SubSeq([LdapSearchRequest_into_tags(SearchBase) EXCEPT ![2] = s], 1, 7)

\* The attrs element of a search request: absent, conforming (no name, one
\* name, two names), and not conforming: universal elements that are no
\* SEQUENCE or no constructed one, a SEQUENCE with a child that is no
\* OCTET STRING or no UTF-8, and a SEQUENCE of another class.
AttrsConforming ==
    {USequence(<< >>), USequence(<<UOctetString(StrCn)>>),
     USequence(<<UOctetString(StrCn), UOctetString(StrA)>>)}

AttrsNotConforming ==
    {UOctetString(StrA), TagNull("Universal", TypesNull),
     Prim("Universal", TypesSequence, WriteTag(UOctetString(StrCn))),
     USequence(<<TagBoolean(TRUE)>>),
     USequence(<<UOctetString(StrCn), Prim("Context", TypesOctetString, StrA)>>),
     USequence(<<UOctetString(BytesNotUtf8)>>),
     Cons("Context", TypesSequence, <<UOctetString(StrCn)>>),
     Cons("Application", TypesSequence, << >>),
     Prim("Private", TypesOctetString, StrA)}

AttrsElements == {<< >>} \cup {<<a>> : a \in AttrsConforming \cup AttrsNotConforming}

SearchAttrsFrames ==
    {USequence(<<MsgIdTag(9),
                 TagSequence("Application", 3, SearchHead(TagEnumerated(2)) \o a)>>) :
        a \in AttrsElements}

MaxScope == 4

\* Contents of the scope element: every number up to MaxScope, no content,
\* two content bytes for 1, and 255.
ScopeContents == {<<n>> : n \in 0..MaxScope} \cup {<< >>, <<0, 1>>, <<255>>}

\* The scope element: such content under every class and the ids of
\* ENUMERATED, INTEGER and OCTET STRING, and constructed elements.
ScopeTags ==
    {Prim(c, i, b) : c \in Classes, i \in {TypesEnumerated, TypesInteger, TypesOctetString},
                     b \in ScopeContents}
    \cup {Cons("Universal", TypesEnumerated, << >>),
          Cons("Universal", TypesEnumerated, <<TagEnumerated(1)>>)}

SearchScopeFrames ==
    {USequence(<<MsgIdTag(10),
                 TagSequence("Application", 3, SearchHead(s) \o <<USequence(<< >>)>>)>>) :
        s \in ScopeTags}

\* The parts of a Substring filter: an initial, two different any (one of
\* no bytes), a final, a part of another id, a constructed one, one that
\* is no UTF-8.
PartTags ==
    {Prim("Universal", 0, StrA), Prim("Universal", 1, StrB), Prim("Universal", 1, StrEmpty),
     Prim("Universal", 2, StrC), Prim("Universal", 3, StrA),
     Cons("Universal", 1, << >>), Prim("Universal", 1, BytesNotUtf8)}

MaxParts == 3

PartLists == UNION {[1..n -> PartTags] : n \in 0..MaxParts}

\* A search request whose filter is the Substring filter with the parts l.
SubstringFrame(l) ==
    USequence(<<MsgIdTag(11),
                TagSequence("Application", 3,
                    [LdapSearchRequest_into_tags(SearchBase) EXCEPT
                        ![7] = TagSequence("Context", 4, <<UOctetString(StrCn), USequence(l)>>)])>>)

SubstringFrames == {SubstringFrame(l) : l \in PartLists}

RawFrames ==
    OpFrames \cup ControlFrames \cup OuterFrames \cup MsgIdFrames \cup CodeFrames \cup BindFrames

NextRaw ==
    \/ \E f \in RawFrames : Len(sent) = 0 /\ PeerWrite(f)
    \/ Len(wire) > 0 /\ Transfer(Len(wire))
    \/ Decode

SpecRaw == Init /\ [][NextRaw]_vars

\* The same with the frames that carry one SyncState control.
NextSyncState ==
    \/ \E f \in SyncStateFrames : Len(sent) = 0 /\ PeerWrite(f)
    \/ Len(wire) > 0 /\ Transfer(Len(wire))
    \/ Decode

SpecSyncState == Init /\ [][NextSyncState]_vars

\* The same with the search requests written element by element.
SearchFrames == SearchAttrsFrames \cup SearchScopeFrames \cup SubstringFrames

NextSearch ==
    \/ \E f \in SearchFrames : Len(sent) = 0 /\ PeerWrite(f)
    \/ Len(wire) > 0 /\ Transfer(Len(wire))
    \/ Decode

SpecSearch == Init /\ [][NextSearch]_vars

\* A decode call was handed exactly the one frame written.
DecodedFrame == Len(sent) = 1 /\ res.kind # "Idle" /\ res.before = sent[1].bytes

\* The control elements of the frame written, in wire order.
SentControls == sent[1].tag.val[3].val

\* The positions of the control elements that individually convert.
Convertible == {i \in 1..Len(SentControls) : IsSome(LdapControl_try_from(SentControls[i]))}

\* The control a well-formed element was written from.
ControlOf(tag) == CHOOSE c \in GoodControls : LdapControl_into_tag(c) = tag

\* C8: a message whose msgid and operation are valid decodes whatever its
\* k control elements are, and its control list is made of exactly the
\* elements that individually convert (a supported OID, a well-formed
\* body), in their wire order; the others are left out.
C8_ControlsFiltered ==
    (DecodedFrame /\ sent[1].tag \in ControlFrames) =>
        /\ res.kind = "Some"
        /\ Convertible = {i \in 1..Len(SentControls) : SentControls[i] \in GoodControlTags}
        /\ res.msg[1].ctrl =
              [j \in 1..Cardinality(Convertible) |-> ControlOf(Keep(SentControls, Convertible)[j])]

\* Three control elements were sent, the second of which does not convert;
\* the message came back with the first and the third, in that order.
C8_MiddleDropped ==
    /\ DecodedFrame /\ sent[1].tag \in ControlFrames
    /\ Len(SentControls) = 3 /\ Convertible = {1, 3}
    /\ SentControls[1] # SentControls[3]
    /\ res.kind = "Some"
    /\ res.msg[1].ctrl = <<ControlOf(SentControls[1]), ControlOf(SentControls[3])>>

\* The operation an id stands for, given the form of its payload; "" when
\* the table has no entry.
OpTable(id, pc) ==
    CASE id = 0 /\ pc = "C" -> "BindRequest"
      [] id = 1 /\ pc = "C" -> "BindResponse"
      [] id = 2 -> "UnbindRequest"
      [] id = 3 /\ pc = "C" -> "SearchRequest"
      [] id = 4 /\ pc = "C" -> "SearchResultEntry"
      [] id = 5 /\ pc = "C" -> "SearchResultDone"
      [] id = 6 /\ pc = "C" -> "ModifyRequest"
      [] id = 7 /\ pc = "C" -> "ModifyResponse"
      [] id = 8 /\ pc = "C" -> "AddRequest"
      [] id = 9 /\ pc = "C" -> "AddResponse"
      [] id = 10 /\ pc = "P" -> "DelRequest"
      [] id = 11 /\ pc = "C" -> "DelResponse"
      [] id = 16 /\ pc = "P" -> "AbandonRequest"
      [] id = 23 /\ pc = "C" -> "ExtendedRequest"
      [] id = 24 /\ pc = "C" -> "ExtendedResponse"
      [] id = 25 /\ pc = "C" -> "IntermediateResponse"
      [] OTHER -> ""

\* The operation tag of the frame written.
SentOp == sent[1].tag.val[2]

\* The operation tag is one of the table: class Application, a listed id,
\* the form listed for it.
Listed == SentOp.class = "Application" /\ OpTable(SentOp.id, SentOp.pc) # ""

\* C9: an operation tag of class Application with a listed id and form is
\* decoded as the operation of that id (id 2 with any payload); a tag of
\* another class, another id or the other form fails the whole message.
C9_Dispatch ==
    (DecodedFrame /\ sent[1].tag \in OpFrames) =>
        /\ ~Listed => res.kind = "Err"
        /\ Listed =>
            /\ res.kind = "Some" => res.msg[1].op.t = OpTable(SentOp.id, SentOp.pc)
            /\ (SentOp \in OpSampleTags \/ SentOp.id = 2) => res.kind = "Some"

\* An unbind request with a constructed payload was decoded.
C9_UnbindAnyPayload ==
    /\ DecodedFrame /\ sent[1].tag \in OpFrames
    /\ SentOp.class = "Application" /\ SentOp.id = 2 /\ SentOp.pc = "C" /\ Len(SentOp.val) > 0
    /\ res.kind = "Some" /\ res.msg[1].op.t = "UnbindRequest"

\* The frame written has the outer shape of a message: a constructed
\* universal SEQUENCE with two or three children.
OuterShape ==
    /\ sent[1].tag.class = "Universal" /\ sent[1].tag.id = TypesSequence /\ sent[1].tag.pc = "C"
    /\ Len(sent[1].tag.val) \in {2, 3}

\* C10: a complete frame whose outer tag is not a universal-class
\* constructed SEQUENCE, or that has not two or three children, gets an
\* error from decode, never a message.
C10_OuterShapeChecked ==
    (DecodedFrame /\ sent[1].tag \in OuterFrames /\ ~OuterShape) => res.kind = "Err"

\* A frame whose outer tag is of another class than universal came back as
\* a message.
C10_OtherClassAccepted ==
    /\ DecodedFrame /\ sent[1].tag \in OuterFrames
    /\ sent[1].tag.class # "Universal"
    /\ res.kind = "Some"

\* Only the id, the form and the number of children decide.
C10_IdFormCount ==
    (DecodedFrame /\ sent[1].tag \in OuterFrames) =>
        (res.kind = "Some" <=>
            /\ sent[1].tag.id = TypesSequence /\ sent[1].tag.pc = "C"
            /\ Len(sent[1].tag.val) \in {2, 3})

\* The content bytes of the message id of the frame written.
SentMsgId == sent[1].tag.val[1].val

\* C13: a message decoded from a frame whose message id INTEGER has 1 to
\* 8 content bytes has a message id from 0 to 2^31 - 1.
C13_MsgIdInRange ==
    (DecodedFrame /\ sent[1].tag \in MsgIdFrames /\ Len(SentMsgId) \in 1..8 /\ res.kind = "Some") =>
        (0 <= res.msg[1].msgid /\ res.msg[1].msgid <= MaxInt)

\* Four content bytes with the top bit set came back as a negative
\* message id.
C13_NegativeMsgId ==
    /\ DecodedFrame /\ sent[1].tag \in MsgIdFrames
    /\ Len(SentMsgId) = 4 /\ SentMsgId[1] >= 128
    /\ res.kind = "Some" /\ res.msg[1].msgid < 0

\* The number a content of up to four bytes stands for, read without a sign.
RECURSIVE Unsigned(_)
Unsigned(b) == IF Len(b) = 0 THEN 0 ELSE Unsigned(SubSeq(b, 1, Len(b) - 1)) * 256 + b[Len(b)]

\* Contents that fit 31 bits come back as the number they hold, read
\* without a sign; every content of 1 to 8 bytes gives a message.
C13_ShortIdsKept ==
    (DecodedFrame /\ sent[1].tag \in MsgIdFrames /\ Len(SentMsgId) \in 1..8) =>
        /\ res.kind = "Some"
        /\ (Len(SentMsgId) < 4 \/ (Len(SentMsgId) = 4 /\ SentMsgId[1] < 128)) =>
              res.msg[1].msgid = Unsigned(SentMsgId)

\* The numbers of the result code table.
ListedCodes ==
    (0..8) \cup (10..14) \cup (16..21) \cup {32, 33, 34, 36} \cup (48..54) \cup (64..69)
    \cup {71, 80, 4096}

\* The number of the ENUMERATED code of the frame written.
SentCode == Unsigned(SentOp.val[1].val)

\* C14: a result whose ENUMERATED code is a number of the table decodes,
\* to a code that encoding writes as that same number (4096, two bytes,
\* being EsyncRefreshRequired); with any other number the result does not
\* decode and the whole message fails.
C14_ResultCodes ==
    (DecodedFrame /\ sent[1].tag \in CodeFrames) =>
        /\ res.kind = "Some" <=> SentCode \in ListedCodes
        /\ SentCode \notin ListedCodes => res.kind = "Err"
        /\ res.kind = "Some" =>
            /\ LdapOp_into_tag(res.msg[1].op) = SentOp
            /\ res.msg[1].op.res.code = "EsyncRefreshRequired" <=> SentCode = 4096
            /\ res.msg[1].op.res.code = "Success" <=> SentCode = 0
            /\ res.msg[1].op.res.code = "Other" <=> SentCode = 80

\* The two-byte code 4096 came back as EsyncRefreshRequired.
C14_TwoByteCode ==
    /\ DecodedFrame /\ sent[1].tag \in CodeFrames
    /\ SentOp.val[1].val = <<16, 0>>
    /\ res.kind = "Some" /\ res.msg[1].op.res.code = "EsyncRefreshRequired"

\* C16: every bind request encode writes has INTEGER 3 as its first
\* child and decodes; a bind request whose version is another number than
\* 3, or whose credential is not a context-class id-0 primitive, does not
\* decode and the message is an error.
C16_BindVersion ==
    (DecodedFrame /\ sent[1].tag \in BindFrames) =>
        /\ sent[1].tag \in EncodedBindFrames =>
              /\ SentOp.val[1] = Prim("Universal", TypesInteger, <<3>>)
              /\ res.kind = "Some"
        /\ Unsigned(SentOp.val[1].val) # 3 => res.kind = "Err"
        /\ ~(SentOp.val[3].class = "Context" /\ SentOp.val[3].id = 0 /\ SentOp.val[3].pc = "P")
              => res.kind = "Err"
        /\ res.kind = "Some" =>
              /\ res.msg[1].op.t = "BindRequest"
              /\ res.msg[1].op.dn = SentOp.val[2].val
              /\ res.msg[1].op.cred.pw = SentOp.val[3].val

\* A bind request with version 2 and a well-formed simple credential was
\* rejected.
C16_Version2Rejected ==
    /\ DecodedFrame /\ sent[1].tag \in WrittenBindFrames
    /\ SentOp.val[1].val = <<2>>
    /\ SentOp.val[3] = Prim("Context", 0, StrA)
    /\ res.kind = "Err"

\* The body of the SyncState control written: its state element, the bytes
\* of its entry_uuid element, and its cookie.
SentStateTag == SentControlBody.val[1]

SentUuid == SentControlBody.val[2].val

SentCookie == IF Len(SentControlBody.val) = 3 THEN Some(SentControlBody.val[3].val) ELSE None

\* The names of the states 0..3.
StateNames == <<"Present", "Add", "Modify", "Delete">>

\* The body holds a state in 0..3 and an entry_uuid of exactly 16 bytes.
StateAndUuidValid ==
    /\ SentStateTag.class = "Universal" /\ SentStateTag.id = TypesEnumerated
    /\ Unsigned(SentStateTag.val) \in 0..3
    /\ Len(SentUuid) = UuidLen

\* C22: a SyncState control decodes only when its body holds a state in
\* 0..3 and an entry_uuid of exactly 16 bytes, and is left out of the
\* message otherwise; the decoded value is made of the state, the UUID and
\* the cookie whatever the criticality element is, present or not; and
\* every SyncState{state, entry_uuid, cookie} written by the encoder comes
\* back equal.
C22_SyncState ==
    (DecodedFrame /\ sent[1].tag \in SyncStateFrames) =>
        /\ res.kind = "Some"
        /\ res.msg[1].ctrl =
              IF StateAndUuidValid
              THEN <<[t |-> "SyncState", state |-> StateNames[Unsigned(SentStateTag.val) + 1],
                      entry_uuid |-> SentUuid, cookie |-> SentCookie]>>
              ELSE << >>
        /\ \A s \in 1..4, u \in {Uuid1, Uuid2}, k \in {None, Some(StrC), Some(StrEmpty)} :
              LET c == [t |-> "SyncState", state |-> StateNames[s], entry_uuid |-> u, cookie |-> k]
              IN  SentControls[1] = LdapControl_into_tag(c) => res.msg[1].ctrl = <<c>>

\* A SyncState with a valid state and an entry_uuid of 17 bytes was left
\* out of the message.
C22_LongUuidDropped ==
    /\ DecodedFrame /\ sent[1].tag \in SyncStateFrames
    /\ SentStateTag = Prim("Universal", TypesEnumerated, <<3>>)
    /\ Len(SentUuid) = UuidLen + 1
    /\ res.kind = "Some" /\ res.msg[1].ctrl = << >>

\* A SyncState written with a criticality element that is no BOOLEAN was
\* decoded with its state, UUID and cookie.
C22_CriticalityIgnored ==
    /\ DecodedFrame /\ sent[1].tag \in SyncStateFrames
    /\ Len(SentControlSeq) = 3 /\ SentControlSeq[2] = UOctetString(StrA)
    /\ res.kind = "Some"
    /\ res.msg[1].ctrl = <<[t |-> "SyncState", state |-> "Delete", entry_uuid |-> Uuid2,
                            cookie |-> Some(StrC)]>>

\* A search request written with one of the attrs elements was decoded.
DecodedSearchAttrs == DecodedFrame /\ sent[1].tag \in SearchAttrsFrames

\* The attrs element written, if any.
SentAttrs == IF Len(SentOp.val) = 8 THEN Some(SentOp.val[8]) ELSE None

\* C24: in a build without "strict", a SearchRequest whose attrs element
\* is absent, or present but no conforming SEQUENCE of OCTET STRINGs, is
\* decoded, with attrs = []; in a build with "strict" it is rejected.
C24_AttrsTolerated ==
    (DecodedSearchAttrs /\ (IsNone(SentAttrs) \/ SentAttrs[1] \in AttrsNotConforming)) =>
        IF strict THEN res.kind = "Err"
        ELSE res.kind = "Some" /\ res.msg[1].op.attrs = << >>

\* Without "strict", a search request without its attrs element was
\* rejected.
C24_AbsentAttrsRejected ==
    /\ DecodedSearchAttrs /\ ~strict
    /\ IsNone(SentAttrs)
    /\ res.kind = "Err"

\* Without "strict", a search request whose attrs element is of another
\* class than universal was rejected.
C24_OtherClassAttrsRejected ==
    /\ DecodedSearchAttrs /\ ~strict
    /\ IsSome(SentAttrs) /\ SentAttrs[1].class # "Universal"
    /\ res.kind = "Err"

\* With "strict" the request is decoded exactly when the attrs element is
\* conforming; without it, exactly when the element is there and of
\* universal class, and then with attrs = [].
C24_AttrsAsCoded ==
    DecodedSearchAttrs =>
        IF strict
        THEN res.kind = (IF IsSome(SentAttrs) /\ SentAttrs[1] \in AttrsConforming THEN "Some" ELSE "Err")
        ELSE IF IsSome(SentAttrs) /\ SentAttrs[1].class = "Universal"
             THEN res.kind = "Some" /\ res.msg[1].op.attrs = << >>
             ELSE res.kind = "Err"

\* A search request written with one of the scope elements was decoded.
DecodedSearchScope == DecodedFrame /\ sent[1].tag \in SearchScopeFrames

SentScope == SentOp.val[2]

\* The names of the scopes 0..2.
ScopeNames == <<"Base", "OneLevel", "Subtree">>

\* The scope element is a universal ENUMERATED.
ScopeTagged == SentScope.class = "Universal" /\ SentScope.id = TypesEnumerated

\* C25: in a build without "strict", a SearchRequest whose scope element
\* has a class or id other than universal ENUMERATED is still decoded, its
\* primitive content giving Base, OneLevel or Subtree; in a build with
\* "strict" any such mismatch rejects the request; in both builds a value
\* outside 0..2 rejects it.
C25_ScopeTolerated ==
    (DecodedSearchScope /\ SentScope.pc = "P") =>
        IF Unsigned(SentScope.val) \notin 0..2 THEN res.kind = "Err"
        ELSE IF strict /\ ~ScopeTagged THEN res.kind = "Err"
        ELSE /\ res.kind = "Some"
             /\ res.msg[1].op.scope = ScopeNames[Unsigned(SentScope.val) + 1]

\* Without "strict", a scope element of value 2 tagged as an ENUMERATED of
\* the context class made the request be rejected.
C25_OtherClassScopeRejected ==
    /\ DecodedSearchScope /\ ~strict
    /\ SentScope = Prim("Context", TypesEnumerated, <<2>>)
    /\ res.kind = "Err"

\* Without "strict", a scope element of value 1 tagged as a universal
\* INTEGER was decoded as OneLevel.
C25_OtherIdScopeAccepted ==
    /\ DecodedSearchScope /\ ~strict
    /\ SentScope = Prim("Universal", TypesInteger, <<1>>)
    /\ res.kind = "Some" /\ res.msg[1].op.scope = "OneLevel"

\* The class has to be universal in both builds; the id is only looked at
\* with "strict"; the element has to be primitive and of value 0..2.
C25_ScopeAsCoded ==
    DecodedSearchScope =>
        IF /\ SentScope.pc = "P" /\ Unsigned(SentScope.val) \in 0..2
           /\ SentScope.class = "Universal"
           /\ strict => SentScope.id = TypesEnumerated
        THEN /\ res.kind = "Some"
             /\ res.msg[1].op.scope = ScopeNames[Unsigned(SentScope.val) + 1]
        ELSE res.kind = "Err"

\* A search request written with a Substring filter was decoded.
DecodedSubstring == DecodedFrame /\ sent[1].tag \in SubstringFrames

\* The parts written.
SentParts == SentOp.val[7].val[2].val

\* Every part is primitive, UTF-8 and of id 0, 1 or 2, an id-0 part is at
\* the first position only and an id-2 part at the last only.
PartsInOrder ==
    \A i \in 1..Len(SentParts) :
        /\ SentParts[i].pc = "P" /\ IsUtf8(SentParts[i].val)
        /\ SentParts[i].id \in {0, 1, 2}
        /\ SentParts[i].id = 0 => i = 1
        /\ SentParts[i].id = 2 => i = Len(SentParts)

HasInitial == Len(SentParts) > 0 /\ SentParts[1].id = 0

HasFinal == Len(SentParts) > 0 /\ SentParts[Len(SentParts)].id = 2

\* The parts between the initial and the final one.
MiddleParts ==
    SubSeq(SentParts, IF HasInitial THEN 2 ELSE 1,
                      IF HasFinal THEN Len(SentParts) - 1 ELSE Len(SentParts))

\* C27: a Substring filter is decoded only if an id-0 part is at the first
\* position alone and an id-2 part at the last alone, the id-1 parts,
\* kept in wire order, being elsewhere; a misplaced or repeated initial or
\* final, another id, a constructed part or a part that is no UTF-8 makes
\* the filter and the SearchRequest fail; parts without bytes and no part
\* at all are accepted.
C27_SubstringOrder ==
    DecodedSubstring =>
        IF PartsInOrder
        THEN /\ res.kind = "Some"
             /\ res.msg[1].op.filter =
                   [t |-> "Substring", a |-> StrCn,
                    sub |-> [initial |-> IF HasInitial THEN Some(SentParts[1].val) ELSE None,
                             any |-> [i \in 1..Len(MiddleParts) |-> MiddleParts[i].val],
                             final_ |-> IF HasFinal THEN Some(SentParts[Len(SentParts)].val)
                                        ELSE None]]
        ELSE res.kind = "Err"

\* A final part followed by an any part made the search request fail.
C27_FinalNotLast ==
    /\ DecodedSubstring
    /\ SentParts = <<Prim("Universal", 2, StrC), Prim("Universal", 1, StrB)>>
    /\ res.kind = "Err"

\* An initial part, an any part without bytes, another any part and no
\* final part were decoded in that order.
C27_EmptyAnyKept ==
    /\ DecodedSubstring
    /\ res.kind = "Some"
    /\ res.msg[1].op.filter.sub = [initial |-> Some(StrA), any |-> <<StrEmpty, StrB>>, final_ |-> None]

\* No part at all was decoded.
C27_NoParts ==
    /\ DecodedSubstring /\ Len(SentParts) = 0
    /\ res.kind = "Some"
    /\ res.msg[1].op.filter.sub = [initial |-> None, any |-> << >>, final_ |-> None]

-----------------------------------------------------------------------------
(* The convenience wrappers over the extended operation                    *)

\* An Option<String> written as a context-class OCTET STRING with the id.
OptField(o, id) == IF IsSome(o) THEN Some(TagOctetString("Context", id, o[1])) ELSE None

\* From<LdapPasswordModifyRequest> for LdapExtendedRequest
From_LdapPasswordModifyRequest(v) ==
    [k |-> "LdapExtendedRequest",
     name |-> OidPasswordModify,
     value |-> Some(WriteTag(USequence(Flatten(<<OptField(v.user_identity, 0),
                                                  OptField(v.old_password, 1),
                                                  OptField(v.new_password, 2)>>))))]

\* What the loop leaves in the field with the id: the last child carrying it.
FieldOf(seq, id) ==
    LET at == {j \in 1..Len(seq) : seq[j].id = id}
    IN  IF at = {} THEN None ELSE Some(seq[CHOOSE j \in at : \A i \in at : i <= j].val)

\* A variant that keeps the first child carrying the id and stops at the
\* first field found.
PasswordModifyRequest_from_seq_first(oseq) ==
    IF IsNone(oseq) THEN None
    ELSE IF \E j \in 1..Len(oseq[1]) :
               oseq[1][j].pc # "P" \/ ~IsUtf8(oseq[1][j].val) \/ oseq[1][j].id \notin {0, 1, 2}
         THEN None
         ELSE Some([k |-> "LdapPasswordModifyRequest",
                    user_identity |-> FieldOf(oseq[1], 0),
                    old_password |-> IF IsSome(FieldOf(oseq[1], 0)) THEN None ELSE FieldOf(oseq[1], 1),
                    new_password |-> IF IsSome(FieldOf(oseq[1], 0)) THEN None ELSE FieldOf(oseq[1], 2)])

\* The loop over the children: any child that is not primitive, not UTF-8
\* or of an id other than 0, 1, 2 ends the conversion with Err.
PasswordModifyRequest_from_seq(oseq) ==
    IF IsNone(oseq) THEN None
    ELSE IF \E j \in 1..Len(oseq[1]) :
               oseq[1][j].pc # "P" \/ ~IsUtf8(oseq[1][j].val) \/ oseq[1][j].id \notin {0, 1, 2}
         THEN None
         ELSE Some([k |-> "LdapPasswordModifyRequest",
                    user_identity |-> FieldOf(oseq[1], 0),
                    old_password |-> FieldOf(oseq[1], 1),
                    new_password |-> FieldOf(oseq[1], 2)])

PasswordModifyRequest_from_parsed(p) ==
    IF p.st # "Done" THEN None
    ELSE PasswordModifyRequest_from_seq(ExpectConstructed(MatchId(Some(p.tag), TypesSequence)))

\* TryFrom<&LdapExtendedRequest> for LdapPasswordModifyRequest
LdapPasswordModifyRequest_try_from(value) ==
    IF value.name # OidPasswordModify \/ IsNone(value.value) THEN None
    ELSE PasswordModifyRequest_from_parsed(ParseTag(value.value[1]))

\* From<LdapPasswordModifyResponse> for LdapExtendedResponse
From_LdapPasswordModifyResponse(v) ==
    [k |-> "LdapExtendedResponse",
     res |-> v.res,
     name |-> None,
     value |-> Some(WriteTag(USequence(Flatten(<<OptField(v.gen_password, 0)>>))))]

\* seq.pop().and_then(match_id(0)).and_then(expect_primitive).and_then(from_utf8)
GenPassword_from_seq(seq) == FromUtf8(ExpectPrimitive(MatchId(Last(seq), 0)))

PasswordModifyResponse_from_seq(r, oseq) ==
    IF IsNone(oseq) THEN None
    ELSE Some([k |-> "LdapPasswordModifyResponse", res |-> r, gen_password |-> GenPassword_from_seq(oseq[1])])

PasswordModifyResponse_from_parsed(r, p) ==
    IF p.st # "Done" THEN None
    ELSE PasswordModifyResponse_from_seq(r, ExpectConstructed(MatchId(Some(p.tag), TypesSequence)))

\* TryFrom<&LdapExtendedResponse> for LdapPasswordModifyResponse
LdapPasswordModifyResponse_try_from(value) ==
    IF IsSome(value.name) \/ IsNone(value.value) THEN None
    ELSE PasswordModifyResponse_from_parsed(value.res, ParseTag(value.value[1]))

\* TryFrom<&LdapExtendedResponse> for LdapWhoamiResponse
LdapWhoamiResponse_try_from(value) ==
    IF IsSome(value.name) THEN None
    ELSE Some([k |-> "LdapWhoamiResponse", dn |-> FromUtf8(value.value)])

\* A value is taken up: conv holds it alone, with its kind.
Take(x) ==
    /\ Len(conv) = 0
    /\ conv' = <<[kind |-> x.k, val |-> Some(x)]>>
    /\ UNCHANGED <<strict, buf, wire, sent, res, out, dbg>>

\* A conversion gave v of the kind: it is added to what conv holds.
Converted(kind, v) ==
    /\ conv' = Append(conv, [kind |-> kind, val |-> v])
    /\ UNCHANGED <<strict, buf, wire, sent, res, out, dbg>>

\* LdapExtendedRequest::from(request)
PasswordModifyRequest_into ==
    /\ Len(conv) = 1 /\ conv[1].kind = "LdapPasswordModifyRequest"
    /\ Converted("LdapExtendedRequest", Some(From_LdapPasswordModifyRequest(conv[1].val[1])))

\* LdapExtendedResponse::from(response)
PasswordModifyResponse_into ==
    /\ Len(conv) = 1 /\ conv[1].kind = "LdapPasswordModifyResponse"
    /\ Converted("LdapExtendedResponse", Some(From_LdapPasswordModifyResponse(conv[1].val[1])))

\* LdapPasswordModifyRequest::try_from(&extended_request)
PasswordModifyRequest_from ==
    /\ Len(conv) \in 1..2 /\ conv[Len(conv)].kind = "LdapExtendedRequest"
    /\ Converted("LdapPasswordModifyRequest", LdapPasswordModifyRequest_try_from(conv[Len(conv)].val[1]))

\* LdapPasswordModifyResponse::try_from(&extended_response)
PasswordModifyResponse_from ==
    /\ Len(conv) \in 1..2 /\ conv[Len(conv)].kind = "LdapExtendedResponse"
    /\ Converted("LdapPasswordModifyResponse", LdapPasswordModifyResponse_try_from(conv[Len(conv)].val[1]))

\* LdapWhoamiResponse::try_from(&extended_response)
WhoamiResponse_from ==
    /\ Len(conv) \in 1..2 /\ conv[Len(conv)].kind = "LdapExtendedResponse"
    /\ Converted("LdapWhoamiResponse", LdapWhoamiResponse_try_from(conv[Len(conv)].val[1]))

OptStrings == {None, Some(StrA), Some(StrEmpty), Some(StrAccent)}

PasswordModifyRequests ==
    {[k |-> "LdapPasswordModifyRequest", user_identity |-> u, old_password |-> o, new_password |-> n] :
        u \in OptStrings, o \in OptStrings, n \in OptStrings}

PasswordModifyResponses ==
    {[k |-> "LdapPasswordModifyResponse", res |-> r, gen_password |-> g] :
        r \in {ResultOk} \cup ResultsWithReferral, g \in OptStrings}

\* Children of a wrapped value: the three fields, the same under another
\* class, and children of another id, of the constructed form, not UTF-8.
FieldTags ==
    {Prim("Context", 0, StrA), Prim("Context", 1, StrB), Prim("Context", 2, StrAccent),
     Prim("Application", 1, StrC),
     Prim("Context", 3, StrA), Cons("Context", 0, << >>), Prim("Context", 1, BytesNotUtf8)}

MaxFields == 2

FieldLists == UNION {[1..n -> FieldTags] : n \in 0..MaxFields}

\* Values of an extended operation: sequences of such children, elements
\* that are no constructed SEQUENCE, a SEQUENCE of another class, bytes
\* that are no whole element, a SEQUENCE followed by one more byte, and
\* plain strings.
WrappedValues ==
    {WriteTag(USequence(l)) : l \in FieldLists}
    \cup {WriteTag(UOctetString(StrA)),
          WriteTag(Prim("Universal", TypesSequence, StrA)),
          WriteTag(Cons("Application", TypesSequence, <<Prim("Context", 0, StrA)>>)),
          << >>, <<48>>, <<48, 5, 128>>,
          WriteTag(USequence(<<Prim("Context", 0, StrA)>>)) \o <<0>>,
          StrCn, BytesNotUtf8}

OptValues == {None} \cup {Some(v) : v \in WrappedValues}

ExtendedRequestsRaw ==
    {[k |-> "LdapExtendedRequest", name |-> n, value |-> v] :
        n \in {OidPasswordModify, OidWhoami, StrEmpty}, v \in OptValues}

ExtendedResponsesRaw ==
    {[k |-> "LdapExtendedResponse", res |-> ResultOk, name |-> n, value |-> v] :
        n \in {None, Some(OidPasswordModify)}, v \in OptValues}

WrapperInputs ==
    PasswordModifyRequests \cup PasswordModifyResponses \cup ExtendedRequestsRaw \cup ExtendedResponsesRaw

NextWrappers ==
    \/ \E x \in WrapperInputs : Take(x)
    \/ PasswordModifyRequest_into
    \/ PasswordModifyResponse_into
    \/ PasswordModifyRequest_from
    \/ PasswordModifyResponse_from
    \/ WhoamiResponse_from

SpecWrappers == Init /\ [][NextWrappers]_vars

\* C17: a password modify request with any of its three fields present or
\* absent, converted to an extended request and back, comes back equal;
\* so does a password modify response, with or without a generated
\* password, converted to an extended response and back.
C17_WrapperRoundTrip ==
    /\ (Len(conv) = 3 /\ conv[1].kind = "LdapPasswordModifyRequest"
            /\ conv[3].kind = "LdapPasswordModifyRequest") =>
          /\ conv[2].val[1].name = OidPasswordModify /\ IsSome(conv[2].val[1].value)
          /\ conv[3].val = conv[1].val
    /\ (Len(conv) = 3 /\ conv[1].kind = "LdapPasswordModifyResponse"
            /\ conv[3].kind = "LdapPasswordModifyResponse") =>
          /\ IsNone(conv[2].val[1].name) /\ IsSome(conv[2].val[1].value)
          /\ conv[3].val = conv[1].val

\* A request with none of its fields went through an empty SEQUENCE and
\* came back.
C17_NoFieldRoundTrip ==
    /\ Len(conv) = 3 /\ conv[1].kind = "LdapPasswordModifyRequest"
    /\ IsNone(conv[1].val[1].user_identity) /\ IsNone(conv[1].val[1].old_password)
    /\ IsNone(conv[1].val[1].new_password)
    /\ conv[2].val[1].value = Some(<<48, 0>>)
    /\ conv[3].val = conv[1].val

\* The value handed to the last conversion, and what the conversion gave.
ConvInput == conv[Len(conv) - 1].val[1]

ConvResult == conv[Len(conv)]

\* The bytes are one element (possibly followed by more bytes) that is a
\* constructed SEQUENCE.
IsSequenceValue(ov) ==
    /\ IsSome(ov)
    /\ ParseTag(ov[1]).st = "Done"
    /\ ParseTag(ov[1]).tag.id = TypesSequence /\ ParseTag(ov[1]).tag.pc = "C"

\* The children of such a value.
ChildrenOf(ov) == ParseTag(ov[1]).tag.val

\* The shape of a password modify request: the OID, and a SEQUENCE of
\* primitive UTF-8 strings with ids 0, 1, 2.
RequestShape(e) ==
    /\ e.name = OidPasswordModify
    /\ IsSequenceValue(e.value)
    /\ \A j \in 1..Len(ChildrenOf(e.value)) :
          /\ ChildrenOf(e.value)[j].pc = "P"
          /\ IsUtf8(ChildrenOf(e.value)[j].val)
          /\ ChildrenOf(e.value)[j].id \in {0, 1, 2}

\* The shape of a password modify response: no name, and a SEQUENCE that
\* holds nothing but id-0 primitive UTF-8 strings.
ResponseShape(e) ==
    /\ IsNone(e.name)
    /\ IsSequenceValue(e.value)
    /\ \A j \in 1..Len(ChildrenOf(e.value)) :
          /\ ChildrenOf(e.value)[j].pc = "P"
          /\ IsUtf8(ChildrenOf(e.value)[j].val)
          /\ ChildrenOf(e.value)[j].id = 0

\* The shape of a who-am-i response: no name, and a value that, when
\* there is one, is a UTF-8 string.
WhoamiShape(e) == IsNone(e.name) /\ (IsSome(e.value) => IsUtf8(e.value[1]))

\* A wrapper conversion of an extended operation has just been made.
WrapperTried(kind) == Len(conv) >= 2 /\ ConvResult.kind = kind

\* C18: each wrapper conversion gives an error unless the extended
\* operation has the expected shape: for the password modify request the
\* OID and a SEQUENCE of primitive UTF-8 strings with ids 0, 1, 2; for the
\* password modify response and the who-am-i response no name and a value
\* of the expected form.
C18_WrappersReject ==
    /\ (WrapperTried("LdapPasswordModifyRequest") /\ IsSome(ConvResult.val)) => RequestShape(ConvInput)
    /\ (WrapperTried("LdapPasswordModifyResponse") /\ IsSome(ConvResult.val)) => ResponseShape(ConvInput)
    /\ (WrapperTried("LdapWhoamiResponse") /\ IsSome(ConvResult.val)) => WhoamiShape(ConvInput)

\* A response whose SEQUENCE holds a child that is no id-0 primitive UTF-8
\* string was converted to a password modify response without a password.
C18_MalformedResponseAccepted ==
    /\ WrapperTried("LdapPasswordModifyResponse")
    /\ Len(conv) = 2
    /\ IsSequenceValue(ConvInput.value) /\ ~ResponseShape(ConvInput)
    /\ IsSome(ConvResult.val) /\ IsNone(ConvResult.val[1].gen_password)

\* The request conversion by itself rejects what has not the shape, and so
\* do the response conversions for a response with a name, and the
\* password modify response for a value that is missing or no SEQUENCE.
C18_NameAndSequenceChecked ==
    /\ (WrapperTried("LdapPasswordModifyRequest") /\ IsSome(ConvResult.val)) => RequestShape(ConvInput)
    /\ (WrapperTried("LdapPasswordModifyResponse") /\ IsSome(ConvResult.val)) =>
          (IsNone(ConvInput.name) /\ IsSequenceValue(ConvInput.value))
    /\ (WrapperTried("LdapWhoamiResponse") /\ IsSome(ConvResult.val)) => IsNone(ConvInput.name)

-----------------------------------------------------------------------------
(* Frames written one after another, some of which convert to no message   *)

\* Complete elements that convert to no message: an outer sequence with
\* one child, an operation id the table has no entry for, a bind request
\* of the primitive form, a message id that is no INTEGER.
FailingFrames ==
    {USequence(<<MsgIdTag(1)>>),
     USequence(<<MsgIdTag(1), TagNull("Application", 30)>>),
     USequence(<<MsgIdTag(1), Prim("Application", 0, StrA)>>),
     USequence(<<UOctetString(StrA), TagNull("Application", 2)>>)}

\* Frames that convert.
ValidFrames ==
    {LdapMsg_into_tag([msgid |-> 1, op |-> [t |-> "UnbindRequest"], ctrl |-> << >>]),
     LdapMsg_into_tag([msgid |-> 2, op |-> [t |-> "DelRequest", dn |-> StrCn], ctrl |-> << >>])}

\* A peer writes up to MaxFrames frames, each delivered whole, and decode is
\* called at any time.
NextFrames ==
    \/ \E f \in FailingFrames \cup ValidFrames :
          Len(sent) < MaxFrames /\ Len(wire) = 0 /\ PeerWrite(f)
    \/ Len(wire) > 0 /\ Transfer(Len(wire))
    \/ Decode

SpecFrames == Init /\ [][NextFrames]_vars

\* C26: when the parser finds a complete outer element of N bytes whose
\* conversion to a message fails, decode returns an error and leaves the
\* buffer advanced by exactly N bytes; each call that returns anything
\* therefore answers for its own frame, and a valid frame behind a failing
\* one is decoded.
C26_ErrorConsumesFrame ==
    /\ [][(Len(out') > Len(out) /\ IsNone(LdapMsg_try_from(ParseTag(buf).tag, strict))) =>
             /\ res'.kind = "Err"
             /\ Len(buf') = Len(buf) - ParseTag(buf).size
             /\ buf' = SubSeq(buf, ParseTag(buf).size + 1, Len(buf))]_vars
    /\ [](\A k \in 1..Len(out) : out[k] = LdapMsg_try_from(sent[k].tag, strict))

\* An outer sequence with one child was followed by a valid frame in the
\* buffer: the first call returned an error, the second was handed the
\* valid frame from its first byte and returned its message.
C26_ValidAfterFailing ==
    /\ Len(sent) = 2 /\ sent[1].tag = USequence(<<MsgIdTag(1)>>) /\ sent[2].tag \in ValidFrames
    /\ res.pkind = "Err" /\ res.pbefore = sent[1].bytes \o sent[2].bytes
    /\ res.kind = "Some" /\ res.before = sent[2].bytes
    /\ out = <<None, LdapMsg_try_from(sent[2].tag, strict)>>
    /\ Len(buf) = 0

-----------------------------------------------------------------------------
(* ber_integer_to_i64 on content bytes, and on what the encoder writes     *)

\* Content bytes handed to ber_integer_to_i64.
IntegerContents ==
    IntContents \cup {<<1>>, <<127>>, <<128>>, <<1, 0>>, <<0, 128>>, <<1, 0, 0>>}

\* Non-negative i64 values handed to the integer writer.
IntegerValues ==
    {I64FromInt(n) : n \in {0, 1, 127, 128, 255, 256, 32767, 32768, 65535, 65536,
                            16777215, 16777216, MaxInt}}
    \cup {<<0, 0, 0, 0, 128, 0, 0, 0>>, <<0, 0, 0, 1, 0, 0, 0, 0>>, <<0, 0, 128, 0, 0, 0, 0, 0>>,
          <<0, 255, 255, 255, 255, 255, 255, 255>>, <<1, 2, 3, 4, 5, 6, 7, 8>>,
          <<127, 255, 255, 255, 255, 255, 255, 255>>}

IntegerInputs ==
    {[k |-> "Vec<u8>", bytes |-> b] : b \in IntegerContents}
    \cup {[k |-> "i64", v |-> v] : v \in IntegerValues}

\* The content octets the encoder writes for an Integer { inner: v }.
Integer_write ==
    /\ Len(conv) = 1 /\ conv[1].kind = "i64"
    /\ Converted("Vec<u8>", Some([k |-> "Vec<u8>", bytes |-> IntBytes(conv[1].val[1].v)]))

\* ber_integer_to_i64(bv)
Integer_read ==
    /\ Len(conv) \in 1..2 /\ conv[Len(conv)].kind = "Vec<u8>"
    /\ Converted("Option<i64>", ber_integer_to_i64(conv[Len(conv)].val[1].bytes))

NextInteger ==
    \/ \E x \in IntegerInputs : Take(x)
    \/ Integer_write
    \/ Integer_read

SpecInteger == Init /\ [][NextInteger]_vars

\* ber_integer_to_i64 was applied: the bytes it was given and its result.
IntegerRead == Len(conv) >= 2 /\ conv[Len(conv)].kind = "Option<i64>"

ReadBytes == conv[Len(conv) - 1].val[1].bytes

ReadResult == conv[Len(conv)].val

\* C28: ber_integer_to_i64 gives no value for more than 8 bytes; for 0 to
\* 8 bytes it gives the bytes right-aligned in 8 bytes with zero bytes on
\* the left, read as a signed big-endian number; so the result is not
\* negative for fewer than 8 bytes, it is 0 for no bytes, and every
\* non-negative integer the encoder writes is read back as itself.
C28_IntegerRead ==
    IntegerRead =>
        /\ Len(ReadBytes) > 8 => IsNone(ReadResult)
        /\ Len(ReadBytes) <= 8 =>
              /\ IsSome(ReadResult) /\ Len(ReadResult[1]) = 8
              /\ \A j \in 1..8 :
                    ReadResult[1][j] = IF j <= 8 - Len(ReadBytes) THEN 0
                                       ELSE ReadBytes[j - (8 - Len(ReadBytes))]
        /\ Len(ReadBytes) < 8 => ReadResult[1][1] < 128
        /\ Len(ReadBytes) = 0 => ReadResult = Some(I64FromInt(0))
        /\ Len(ReadBytes) \in 1..3 => ReadResult = Some(I64FromInt(Unsigned(ReadBytes)))
        /\ Len(conv) = 3 => ReadResult = Some(conv[1].val[1].v)

\* The one byte FF, which holds -1 in BER, was read as 255.
C28_MinusOneReadAs255 ==
    /\ IntegerRead /\ ReadBytes = <<255>>
    /\ ReadResult = Some(I64FromInt(255))

\* Nine bytes gave no value.
C28_NineBytesNone ==
    /\ IntegerRead /\ Len(ReadBytes) = 9
    /\ IsNone(ReadResult)

\* 128 was written as the one byte 80 and read back as 128.
C28_WrittenReadBack ==
    /\ IntegerRead /\ Len(conv) = 3
    /\ conv[1].val[1].v = I64FromInt(128) /\ ReadBytes = <<128>>
    /\ ReadResult = Some(I64FromInt(128))

-----------------------------------------------------------------------------
(* Bytes the parser reports an error on                                     *)

\* Which bytes lber's parser answers with ConsumerState::Error is decided
\* outside this repository: a peer writes some bytes, and whether the
\* parser reports an error on them is part of what is written.  The parser
\* is created anew by every call, so the same bytes get the same answer.
WrittenBytes ==
    {<<255>>, <<48, 128>>, <<48, 3, 2, 1>>, <<2, 1, 1, 255>>, <<0, 0>>,
     EncodeBytes([msgid |-> 1, op |-> [t |-> "UnbindRequest"], ctrl |-> << >>]) \o <<255>>}

\* The peer writes the bytes b.
PeerWriteBytes(b, rejected) ==
    /\ wire' = b
    /\ sent' = Append(sent, [m |-> None, bytes |-> b, rejected |-> rejected])
    /\ UNCHANGED <<strict, buf, res, out, dbg, conv>>

\* The parser reports an error on the bytes b.
Rejects(b) == Len(sent) = 1 /\ sent[1].rejected /\ b = sent[1].bytes

\* What Parser::handle answers on the buffer b.
ParserHandle(b) == IF Rejects(b) THEN PError ELSE ParseTag(b)

MaxCalls == 3

\* codec.decode(&mut buf), as long as fewer than MaxCalls calls have
\* returned something.
DecodeHandled ==
    /\ Len(out) < MaxCalls
    /\ DecodeReturns(decode_parsed(buf, ParserHandle(buf), strict))

NextRejected ==
    \/ \E b \in WrittenBytes, r \in BOOLEAN : Len(sent) = 0 /\ PeerWriteBytes(b, r)
    \/ Len(wire) > 0 /\ Transfer(Len(wire))
    \/ DecodeHandled

SpecRejected == Init /\ [][NextRejected]_vars

\* C29: when the parser reports an error on the buffer content, decode
\* returns an error and consumes no byte; every later call on the
\* unchanged buffer therefore returns the error again, and nothing but
\* errors is ever returned.
C29_ParserErrorKeepsBuffer ==
    /\ [][(Rejects(buf) /\ Len(out') > Len(out)) => (res'.kind = "Err" /\ buf' = buf)]_vars
    /\ []((Len(sent) = 1 /\ sent[1].rejected /\ Len(out) > 0) =>
             /\ res.kind = "Err" /\ res.before = sent[1].bytes
             /\ buf = sent[1].bytes
             /\ \A k \in 1..Len(out) : IsNone(out[k]))

\* Three calls in a row returned the error on the same bytes, which are
\* still in the buffer.
C29_SameErrorAgain ==
    /\ Len(sent) = 1 /\ sent[1].rejected
    /\ Len(out) >= 3
    /\ res.kind = "Err" /\ res.pkind = "Err"
    /\ res.before = sent[1].bytes /\ res.pbefore = sent[1].bytes
    /\ buf = sent[1].bytes

-----------------------------------------------------------------------------
(* The third child of a message                                             *)

\* What a third child holds: nothing, or one control that converts.
ThirdChildLists == {<< >>} \cup {<<c>> : c \in GoodControlTags}

\* Third children of every class and form, with id 0 and other ids.
ThirdChildTags ==
    {Cons(c, i, l) : c \in Classes, i \in {0, 1, TypesSequence}, l \in ThirdChildLists}
    \cup {Prim(c, i, WriteTags(l)) : c \in Classes, i \in {0, 1, TypesSequence}, l \in ThirdChildLists}

ThirdChildFrames ==
    {USequence(<<MsgIdTag(12), LdapOp_into_tag([t |-> "SearchResultDone", res |-> ResultOk]), t>>) :
        t \in ThirdChildTags}

NextThirdChild ==
    \/ \E f \in ThirdChildFrames : Len(sent) = 0 /\ PeerWrite(f)
    \/ Len(wire) > 0 /\ Transfer(Len(wire))
    \/ Decode

SpecThirdChild == Init /\ [][NextThirdChild]_vars

DecodedThirdChild == DecodedFrame /\ sent[1].tag \in ThirdChildFrames

\* The third child written.
SentThirdChild == sent[1].tag.val[3]

\* The third child is a constructed element of class context and id 0.
IsControlsElement(t) == t.class = "Context" /\ t.id = 0 /\ t.pc = "C"

\* C30: a message with three children whose message id and operation
\* convert, and whose third child is not a constructed context-class
\* element of id 0, is returned all the same, with an empty control list.
C30_OtherThirdChildNoControls ==
    (DecodedThirdChild /\ ~IsControlsElement(SentThirdChild)) =>
        /\ res.kind = "Some"
        /\ res.msg[1].msgid = 12
        /\ res.msg[1].op = [t |-> "SearchResultDone", res |-> ResultOk]
        /\ res.msg[1].ctrl = << >>

\* A universal SEQUENCE holding a control that converts was the third
\* child, and the message came back without controls.
C30_UniversalSequenceIgnored ==
    /\ DecodedThirdChild
    /\ SentThirdChild.class = "Universal" /\ SentThirdChild.id = TypesSequence
    /\ SentThirdChild.pc = "C" /\ Len(SentThirdChild.val) = 1
    /\ res.kind = "Some" /\ res.msg[1].ctrl = << >>

\* A constructed context-class element of id 0 holding a control that
\* converts was the third child, and the control came back.
C30_ControlsElementRead ==
    /\ DecodedThirdChild
    /\ IsControlsElement(SentThirdChild) /\ Len(SentThirdChild.val) = 1
    /\ res.kind = "Some" /\ Len(res.msg[1].ctrl) = 1

====
